---- MODULE Spec2Model ----
(***************************************************************************)
(* A model of shade's OpenStackCloud (src/shade/openstackcloud.py): the    *)
(* list_servers single-flight guard, the memoized list reads and the verbs *)
(* that invalidate them, the wait loops, the delete verbs, the neutron /   *)
(* nova floating-IP selection and the security-group selection.            *)
(***************************************************************************)
EXTENDS Integers, Sequences, FiniteSets, TLC

\* ------------------------------------------------------------------ bounds
NumThreads == 2
MaxCalls == 3
MaxClock == 6
CacheTTL == 2
WaitTimeout == 2
MaxPolls == 3
MaxOps == 2
MaxData == 2
MaxFilters == 2

\* -------------------------------------------------------- program constants
DEFAULT_SERVER_AGE == 5

None == "None"
Threads == 1..NumThreads
ServerIds == {"s1"}
\* time.time() is seconds since the epoch: far larger than any age limit
Epoch == 2 * DEFAULT_SERVER_AGE

VARIABLES
    \* --- the server inventory of one connection (list_servers)
    _SERVER_AGE,      \* self._SERVER_AGE
    _servers,         \* self._servers: the last snapshot
    _servers_time,    \* self._servers_time
    _servers_lock,    \* self._servers_lock: whether the lock is held
    now,              \* time.time()
    cloud,            \* the servers the compute backend holds
    fetches,          \* the ServerList tasks submitted so far
    pc,               \* each caller's position in list_servers
    blocking,         \* each caller's argument to _servers_lock.acquire
    fetched,          \* each caller's result of _list_servers
    ret,              \* what each caller's last call returned
    calls,            \* the calls each caller has made
    cold,             \* whether the call began before any ServerList task
    had,              \* whether a snapshot was stored when the caller
                      \* evaluated its argument to acquire
    late,             \* whether the call began after _delete_server
                      \* returned True
    \* --- the caller of _delete_server
    dpc,              \* its position in _delete_server
    dwait,            \* its wait argument
    dtime,            \* the value it computed for self._servers_time
    dret,             \* what the call returned or raised
    dfetch,           \* the ServerList tasks submitted before ServerDelete
    \* --- one resource kind of the connection, its memoized list, one caller
    kind,             \* the resource kind the caller works on
    cacheOn,          \* cache_class != 'dogpile.cache.null'
    _cache,           \* self._cache: the entry stored under each list's key
    backend,          \* the status the backend reports for each resource
    op,               \* the verb whose wait loop the caller is in, or "idle"
    phase,            \* the position in that wait loop
    args,             \* the wait and timeout arguments of that verb
    loop,             \* the wait loop: timeout given, time elapsed, polls
    tasks,            \* the backend tasks submitted by the call so far
    log,              \* the outcomes of the caller's last two calls
    nops,             \* the calls the caller has begun
    \* --- the network calls of one caller: floating IPs, security groups
    has_network,      \* self.has_service('network')
    secgroup_source,  \* self.secgroup_source
    request,          \* the verb called last and how its backends answered
    result,           \* the tasks it submitted, the fallbacks logged, its
                      \* outcome
    \* --- the functions that touch no backend: cache keys, range_search
    applied,          \* the function applied last and its arguments
    value,            \* what it returned
    \* --- what the connection itself remembers: networks, containers
    cloud_config,     \* the network settings of cloud_config.config
    _external_networks,       \* self._external_networks
    _external_network_stamp,  \* self._external_network_stamp
    _internal_networks,       \* self._internal_networks
    _internal_network_stamp,  \* self._internal_network_stamp
    neutron,          \* the networks the network backend holds
    _container_cache, \* self._container_cache
    swift,            \* the containers the object store holds
    called,           \* the call made last on the connection
    answered,         \* its tasks and its outcome
    first             \* what the first completed network lookups returned

delVars == <<dpc, dwait, dtime, dret, dfetch>>

srvVars == <<_SERVER_AGE, _servers, _servers_time, _servers_lock, now, cloud,
             fetches, pc, blocking, fetched, ret, calls, cold, had, late,
             delVars>>

resVars == <<kind, cacheOn, _cache, backend, op, phase, args, loop, tasks,
             log, nops>>

fnVars == <<applied, value>>

conVars == <<cloud_config, _external_networks, _external_network_stamp,
             _internal_networks, _internal_network_stamp, neutron,
             _container_cache, swift, called, answered, first>>

netVars == <<has_network, secgroup_source, request, result, fnVars, conVars>>

vars == <<srvVars, resVars, netVars>>

\* ===================================================================
\* The resources of one kind, the memoized list read of that kind
\* ===================================================================
Absent == "absent"
\* "a" is the resource the caller's verbs name, "b" another of the kind
Ids == {"a", "b"}
Target == "a"

Kinds == {"volume", "image", "stack", "user", "project"}

\* the kinds with a verb that waits; snapshots and servers are read by id
WaitKinds == {"volume", "image", "stack", "snapshot", "server"}

\* the statuses the backend reports for a resource of each kind
Statuses(k) ==
    CASE k = "volume" -> {"creating", "available", "in-use", "error",
                          "deleting"}
      [] k = "image" -> {"saving", "active", "killed", "DELETED"}
      [] k = "stack" -> {"CREATE_IN_PROGRESS", "CREATE_COMPLETE",
                         "CREATE_FAILED", "DELETE_IN_PROGRESS"}
      [] k = "snapshot" -> {"creating", "available", "error"}
      [] k = "server" -> {"BUILD", "ACTIVE", "ACTIVE, no addresses",
                          "ERROR"}
      [] OTHER -> {"present"}

\* the statuses the resource the caller does not name starts in
OtherStatuses(k) ==
    CASE k = "volume" -> {Absent, "creating", "in-use"}
      [] k = "image" -> {Absent, "saving", "active"}
      [] k = "stack" -> {Absent, "CREATE_IN_PROGRESS", "CREATE_COMPLETE"}
      [] k \in {"snapshot", "server"} -> {Absent}
      [] OTHER -> {Absent, "present"}

\* the pieces a stack status string is made of
Pieces(status) ==
    CASE status = "CREATE_IN_PROGRESS" -> <<"CREATE", "_IN_PROGRESS">>
      [] status = "CREATE_COMPLETE" -> <<"CREATE", "_COMPLETE">>
      [] status = "CREATE_FAILED" -> <<"CREATE", "_FAILED">>
      [] status = "DELETE_IN_PROGRESS" -> <<"DELETE", "_IN_PROGRESS">>
      [] OTHER -> <<status>>

\* sub in status
Contains(sub, status) ==
    \E i \in DOMAIN Pieces(status) : Pieces(status)[i] = sub

\* the members of a listing
Members(listing) == {i \in Ids : listing[i] # Absent}

\* a slip: a volume being created counted as steady
Mutant_no_pending_volumes(volumes) ==
    \A i \in Members(volumes) :
        volumes[i] \in {"available", "error", "in-use", "creating"}

_no_pending_volumes(volumes) ==
    \A i \in Members(volumes) :
        volumes[i] \in {"available", "error", "in-use"}

_no_pending_images(images) ==
    \A i \in Members(images) : images[i] \in {"active", "deleted", "killed"}

_no_pending_stacks(stacks) ==
    \A i \in Members(stacks) :
        ~(~Contains("_COMPLETE", stacks[i]) /\ ~Contains("_FAILED", stacks[i]))

\* the terminal statuses of each kind, as the claims name them
NonTerminal(k, status) ==
    CASE k = "volume" -> status \notin {"available", "error", "in-use"}
      [] k = "image" -> status \notin {"active", "deleted", "killed"}
      [] k = "stack" -> ~Contains("_COMPLETE", status)
                        /\ ~Contains("_FAILED", status)
      [] OTHER -> FALSE

HasNonTerminal(k, listing) ==
    \E i \in Members(listing) : NonTerminal(k, listing[i])

\* the key generated for each memoized list read
CacheKeys == {"list_volumes", "list_images", "list_stacks", "list_users",
              "list_projects"}

KeyOf(k) ==
    CASE k = "volume" -> "list_volumes"
      [] k = "image" -> "list_images"
      [] k = "stack" -> "list_stacks"
      [] k = "user" -> "list_users"
      [] OTHER -> "list_projects"

\* the task that fetches each list
ListTask(k) ==
    CASE k = "volume" -> "VolumeList"
      [] k = "image" -> "GlanceImageList"
      [] k = "stack" -> "StackList"
      [] k = "user" -> "UserList"
      [] OTHER -> "ProjectList"

\* should_cache_fn of each memoized list read
should_cache(k, listing) ==
    CASE k = "volume" -> _no_pending_volumes(listing)
      [] k = "image" -> _no_pending_images(listing)
      [] k = "stack" -> _no_pending_stacks(listing)
      [] OTHER -> TRUE

Nothing == [i \in Ids |-> Absent]
\* stale: a mutation task of the kind was submitted after val was fetched
NoEntry == [has |-> FALSE, val |-> Nothing, age |-> 0, stale |-> FALSE]
Entry(listing) == [has |-> TRUE, val |-> listing, age |-> 0, stale |-> FALSE]

\* the state a call works on, and what its last list read gave
World == [cache |-> _cache, backend |-> backend,
          tasks |-> IF op = "idle" THEN <<>> ELSE tasks,
          val |-> Nothing, fetched |-> FALSE, stale |-> FALSE]

\* self.manager.submitTask(task)
submitTask(w, task) == [w EXCEPT !.tasks = Append(@, task)]

\* a task that changes the resources of the kind: what was read before it is
\* from now on older than the backend's state
Mutate(w, task, id, status) ==
    [w EXCEPT !.tasks = Append(@, task),
              !.backend = [@ EXCEPT ![id] = status],
              !.cache = [key \in CacheKeys |->
                           IF key = KeyOf(kind) /\ @[key].has
                           THEN [@[key] EXCEPT !.stale = TRUE] ELSE @[key]]]

\* cached_read: a live entry is returned, otherwise the list is fetched and
\* stored unless the staleness predicate reports it not steady
cached_read(w, key, task, listing, steady) ==
    IF cacheOn /\ w.cache[key].has
    THEN [w EXCEPT !.val = w.cache[key].val, !.fetched = FALSE,
                   !.stale = w.cache[key].stale]
    ELSE [w EXCEPT !.tasks = Append(@, task), !.val = listing,
                   !.fetched = TRUE, !.stale = FALSE,
                   !.cache = IF cacheOn /\ steady
                             THEN [@ EXCEPT ![key] = Entry(listing)] ELSE @]

\* <list>.invalidate(self): a no-op when caching is disabled
invalidate(w, key) ==
    IF cacheOn THEN [w EXCEPT !.cache = [@ EXCEPT ![key] = NoEntry]] ELSE w

\* self._cache.invalidate(): the whole region
invalidate_all(w) ==
    IF cacheOn THEN [w EXCEPT !.cache = [key \in CacheKeys |-> NoEntry]] ELSE w

\* list_images drops the images the cloud reports as DELETED
FilterDeleted(images) ==
    [i \in Ids |-> IF images[i] = "DELETED" THEN Absent ELSE images[i]]

list_volumes(w) ==
    cached_read(w, "list_volumes", "VolumeList", w.backend,
                _no_pending_volumes(w.backend))

list_images(w) ==
    cached_read(w, "list_images", "GlanceImageList", FilterDeleted(w.backend),
                _no_pending_images(FilterDeleted(w.backend)))

list_stacks(w) ==
    cached_read(w, "list_stacks", "StackList", w.backend,
                _no_pending_stacks(w.backend))

list_users(w) ==
    cached_read(w, "list_users", "UserList", w.backend, TRUE)

list_projects(w) ==
    cached_read(w, "list_projects", "ProjectList", w.backend, TRUE)

\* the list read of the kind the caller works on
list(w) ==
    CASE kind = "volume" -> list_volumes(w)
      [] kind = "image" -> list_images(w)
      [] kind = "stack" -> list_stacks(w)
      [] kind = "user" -> list_users(w)
      [] OTHER -> list_projects(w)


\* -------------------------------------------------------------------
\* the caller: one call at a time, the last two outcomes remembered
\* a timeout argument: None (no limit) or a number of seconds
NoLimit == [limited |-> FALSE, secs |-> 0]
Limit(n) == [limited |-> TRUE, secs |-> n]
Timeouts == {NoLimit, Limit(WaitTimeout)}

NoArgs == [wait |-> FALSE, timeout |-> NoLimit, pre |-> Absent]
\* a wait loop: the time allowed and elapsed, the rounds run, those that
\* did not see the awaited state, what the last round saw; for the image
\* import the task id asked last, the ids seen to fail with error 396 and
\* whether image_id is set
NoLoop == [timeout |-> NoLimit, elapsed |-> 0, polls |-> 0, pending |-> 0,
           saw |-> "nothing", got |-> 0, failed |-> {}, image_id |-> FALSE]

\* the outcome of a call: out is what it returned, or the exception raised;
\* pre is the target's status in the backend when the call began, post its
\* status when the call ended
\* fetched, stale and pending tell of the call's last list read: whether it
\* went to the backend, whether a mutation task had been submitted since
\* its value was fetched, whether a member was in a non-terminal status
Outcome(verb, st, out, w, pre) ==
    [verb |-> verb, st |-> st, out |-> out, fetched |-> w.fetched,
     stale |-> w.stale, pending |-> HasNonTerminal(kind, w.val), pre |-> pre,
     post |-> w.backend[Target]]

\* of the call before the last only the verb and its outcome are kept
Older(outcome) == [outcome EXCEPT !.fetched = FALSE, !.stale = FALSE]

Push(history, outcome) ==
    IF Len(history) = 0 THEN <<outcome>>
    ELSE <<Older(history[Len(history)]), outcome>>

\* a call that ends in the step that began it
Finish(verb, st, out, w) ==
    /\ _cache' = w.cache
    /\ backend' = w.backend
    /\ tasks' = w.tasks
    /\ log' = Push(log, Outcome(verb, st, out, w, backend[Target]))
    /\ args' = NoArgs
    /\ loop' = NoLoop
    /\ nops' = nops + 1
    /\ UNCHANGED <<srvVars, netVars>>
    /\ UNCHANGED <<kind, cacheOn, op, phase>>

ResIdle ==
    /\ kind = "volume"
    /\ cacheOn = FALSE
    /\ _cache = [key \in CacheKeys |-> NoEntry]
    /\ backend = Nothing
    /\ op = "idle"
    /\ phase = "idle"
    /\ args = NoArgs
    /\ loop = NoLoop
    /\ tasks = <<>>
    /\ log = <<>>
    /\ nops = 0

\* the cache is empty, or holds what a read just before stored
\* the cache c with the lists of the kinds in others, read earlier, stored
\* as well
Holding(c, others) ==
    [key \in CacheKeys |->
       IF key \in others /\ key # KeyOf(kind) THEN Entry(Nothing) ELSE c[key]]

ResInit ==
    /\ kind \in Kinds
    /\ cacheOn \in BOOLEAN
    /\ backend \in [Ids -> Statuses(kind) \cup {Absent}]
    /\ backend["b"] \in OtherStatuses(kind)
    /\ _cache \in {Holding(c, IF cacheOn THEN others ELSE {}) :
                      c \in {[key \in CacheKeys |-> NoEntry],
                             list([cache |-> [key \in CacheKeys |-> NoEntry],
                                   backend |-> backend, tasks |-> <<>>,
                                   val |-> Nothing, fetched |-> FALSE,
                                   stale |-> FALSE]).cache},
                      others \in {{}, CacheKeys}}
    /\ op = "idle"
    /\ phase = "idle"
    /\ args = NoArgs
    /\ loop = NoLoop
    /\ tasks = <<>>
    /\ log = <<>>
    /\ nops = 0

\* a caller that makes one call, of a verb that can wait
WaitsInit ==
    /\ kind \in WaitKinds
    /\ cacheOn \in BOOLEAN
    /\ backend \in [Ids -> Statuses(kind) \cup {Absent}]
    /\ backend["b"] \in OtherStatuses(kind)
    /\ _cache \in {[key \in CacheKeys |-> NoEntry]} \cup
                  IF kind \in Kinds
                  THEN {list([cache |-> [key \in CacheKeys |-> NoEntry],
                              backend |-> backend, tasks |-> <<>>,
                              val |-> Nothing, fetched |-> FALSE,
                              stale |-> FALSE]).cache}
                  ELSE {}
    /\ op = "idle"
    /\ phase = "idle"
    /\ args = NoArgs
    /\ loop = NoLoop
    /\ tasks = <<>>
    /\ log = <<>>
    /\ nops = MaxOps - 1

\* the caller is in no call and may begin one
Idle == op = "idle" /\ nops < MaxOps

\* the caller reads the list of the kind
ReadList ==
    /\ Idle
    /\ Finish("list", "returned", "list", list(World))

\* the backend takes a resource on to the next status by itself
Progress(k, status) ==
    CASE k = "volume" /\ status = "creating" -> {"available", "error"}
      [] k = "volume" /\ status = "deleting" -> {Absent}
      [] k = "image" /\ status = "saving" -> {"active", "killed"}
      [] k = "stack" /\ status = "CREATE_IN_PROGRESS" ->
             {"CREATE_COMPLETE", "CREATE_FAILED"}
      [] k = "stack" /\ status = "DELETE_IN_PROGRESS" -> {Absent}
      [] k = "volume" /\ status = "attaching" ->
             {"in-use", "error", "error, attached"}
      [] k = "volume" /\ status = "detaching" -> {"available", "error"}
      [] k = "snapshot" /\ status = "creating" -> {"available", "error"}
      [] k = "server" /\ status \in {"BUILD", "REBUILD"} ->
             {"ACTIVE", "ACTIVE, no addresses", "ERROR"}
      [] OTHER -> {}

BackendStep ==
    /\ \E i \in Ids : \E status \in Progress(kind, backend[i]) :
          backend' = [backend EXCEPT ![i] = status]
    /\ UNCHANGED <<srvVars, netVars>>
    /\ UNCHANGED <<kind, cacheOn, _cache, op, phase, args, loop, tasks, log,
                   nops>>

\* another client of the cloud deletes the resource a create, attach,
\* detach or rebuild is waiting for
Removed ==
    /\ op \notin {"idle", "delete_volume", "delete_image"}
    /\ backend[Target] # Absent
    /\ backend' = [backend EXCEPT ![Target] = Absent]
    /\ UNCHANGED <<srvVars, netVars>>
    /\ UNCHANGED <<kind, cacheOn, _cache, op, phase, args, loop, tasks, log,
                   nops>>

\* a second passes while the caller is between calls or asleep in a wait
\* loop: entries age and expire, the sleep ends
Aged(entry) ==
    IF entry.has /\ entry.age + 1 < CacheTTL
    THEN [entry EXCEPT !.age = @ + 1] ELSE NoEntry

ResTick ==
    /\ \/ op = "idle" /\ \E key \in CacheKeys : _cache[key].has
       \/ op # "idle" /\ phase = "sleep"
    /\ _cache' = [key \in CacheKeys |-> Aged(_cache[key])]
    /\ loop' = IF op # "idle" THEN [loop EXCEPT !.elapsed = @ + 1] ELSE loop
    /\ phase' = IF phase = "sleep" THEN "poll" ELSE phase
    /\ UNCHANGED <<srvVars, netVars>>
    /\ UNCHANGED <<kind, cacheOn, backend, op, args, tasks, log, nops>>

\* -------------------------------------------------------------------
\* wait loops: for count in _utils._iterate_timeout(timeout, message)
\* the call goes into its wait loop
\* given is the verb's timeout argument, timeout what it hands to the loop
Enter(verb, w, given, timeout) ==
    /\ _cache' = w.cache
    /\ backend' = w.backend
    /\ tasks' = w.tasks
    /\ op' = verb
    /\ phase' = "poll"
    /\ args' = [wait |-> TRUE, timeout |-> given, pre |-> backend[Target]]
    /\ loop' = [NoLoop EXCEPT !.timeout = timeout]
    /\ nops' = nops + 1
    /\ UNCHANGED <<srvVars, netVars>>
    /\ UNCHANGED <<kind, cacheOn, log>>

\* the loop ends once the time allowed has elapsed; None never ends it
Expired(l) == l.timeout.limited /\ l.elapsed >= l.timeout.secs

\* the loop body may run once more
CanPoll(verb) ==
    /\ op = verb
    /\ phase = "poll"
    /\ ~Expired(loop)
    /\ loop.polls < MaxPolls

\* the loop's record once the round has seen status; a round whose read
\* raised has seen "exception"
Saw(status) == [loop EXCEPT !.saw = status]

\* the body ran and the loop goes round: time.sleep(wait)
\* seen tells whether the poll saw the awaited state, l is the loop's
\* record as the body left it
ContinueAs(w, seen, l) ==
    /\ _cache' = w.cache
    /\ backend' = w.backend
    /\ tasks' = w.tasks
    /\ phase' = "sleep"
    /\ loop' = [l EXCEPT !.polls = @ + 1,
                         !.pending = IF seen THEN @ ELSE @ + 1]
    /\ UNCHANGED <<srvVars, netVars>>
    /\ UNCHANGED <<kind, cacheOn, op, args, log, nops>>

Continue(w, seen) == ContinueAs(w, seen, loop)

\* the body ran and the call ends
LeaveAs(verb, st, out, w, l) ==
    /\ _cache' = w.cache
    /\ backend' = w.backend
    /\ tasks' = w.tasks
    /\ op' = "idle"
    /\ phase' = "idle"
    /\ loop' = [l EXCEPT !.polls = @ + 1]
    /\ log' = Push(log, Outcome(verb, st, out, w, args.pre))
    /\ UNCHANGED <<srvVars, netVars>>
    /\ UNCHANGED <<kind, cacheOn, args, nops>>

Leave(verb, st, out, w) == LeaveAs(verb, st, out, w, loop)

\* raise OpenStackCloudTimeout(message)
wait_timeout ==
    /\ op # "idle"
    /\ phase = "poll"
    /\ Expired(loop)
    /\ op' = "idle"
    /\ phase' = "idle"
    /\ log' = Push(log, Outcome(op, "raised", "OpenStackCloudTimeout", World,
                                args.pre))
    /\ UNCHANGED <<srvVars, netVars>>
    /\ UNCHANGED <<kind, cacheOn, _cache, backend, args, loop, tasks, nops>>

\* -------------------------------------------------------------------
\* volumes
\* the status of the volume that get_volume(id) finds
get_volume(w) == list_volumes(w).val[Target]

\* a slip: the wait loop is handed a timeout of no seconds
Mutant_create_volume ==
    /\ kind = "volume"
    /\ Idle
    /\ backend[Target] = Absent
    /\ \E wait \in BOOLEAN, timeout \in Timeouts,
          answer \in {"creating", "error", "raise"} :
          LET created == Mutate(World, "VolumeCreate", Target, answer)
              w == invalidate(created, "list_volumes")
          IN  IF answer = "raise"
              THEN Finish("create_volume", "raised",
                          "OpenStackCloudException",
                          submitTask(World, "VolumeCreate"))
              ELSE IF answer = "error"
              THEN Finish("create_volume", "raised",
                          "OpenStackCloudException", w)
              ELSE IF wait
              THEN Enter("create_volume", w, timeout, Limit(0))
              ELSE Finish("create_volume", "returned", answer, w)

create_volume ==
    /\ kind = "volume"
    /\ Idle
    /\ backend[Target] = Absent
    /\ \E wait \in BOOLEAN, timeout \in Timeouts,
          answer \in {"creating", "error", "raise"} :
          LET created == Mutate(World, "VolumeCreate", Target, answer)
              w == invalidate(created, "list_volumes")
          IN  IF answer = "raise"
              THEN Finish("create_volume", "raised",
                          "OpenStackCloudException",
                          submitTask(World, "VolumeCreate"))
              ELSE IF answer = "error"
              THEN Finish("create_volume", "raised",
                          "OpenStackCloudException", w)
              ELSE IF wait
              THEN Enter("create_volume", w, timeout, timeout)
              ELSE Finish("create_volume", "returned", answer, w)

\* a slip: the first poll that sees the volume available is not acted on
Mutant_create_volume_poll ==
    /\ CanPoll("create_volume")
    /\ LET w == list_volumes(World)
           volume == get_volume(World)
           seen == volume = "available"
       IN  IF volume = Absent
           THEN ContinueAs(w, seen, Saw(volume))
           ELSE IF volume = "available" /\ loop.polls > 0
           THEN LeaveAs("create_volume", "returned", volume, w, Saw(volume))
           ELSE IF volume = "error"
           THEN LeaveAs("create_volume", "raised", "OpenStackCloudException",
                        w, Saw(volume))
           ELSE ContinueAs(w, seen, Saw(volume))

\* one round of create_volume's wait loop
create_volume_poll ==
    /\ CanPoll("create_volume")
    /\ LET w == list_volumes(World)
           volume == get_volume(World)
           seen == volume = "available"
       IN  IF volume = Absent
           THEN ContinueAs(w, seen, Saw(volume))
           ELSE IF volume = "available"
           THEN LeaveAs("create_volume", "returned", volume, w, Saw(volume))
           ELSE IF volume = "error"
           THEN LeaveAs("create_volume", "raised", "OpenStackCloudException",
                        w, Saw(volume))
           ELSE ContinueAs(w, seen, Saw(volume))

delete_volume ==
    /\ kind = "volume"
    /\ Idle
    /\ \E wait \in BOOLEAN, timeout \in Timeouts, fail \in BOOLEAN :
          LET found == list_volumes(invalidate(World, "list_volumes"))
              deleted == Mutate(found, "VolumeDelete", Target, "deleting")
              w == invalidate(deleted, "list_volumes")
          IN  IF found.val[Target] = Absent
              THEN Finish("delete_volume", "returned", "False", found)
              ELSE IF fail
              THEN Finish("delete_volume", "raised",
                          "OpenStackCloudException",
                          submitTask(found, "VolumeDelete"))
              ELSE IF wait
              THEN Enter("delete_volume", w, timeout, timeout)
              ELSE Finish("delete_volume", "returned", "True", w)

\* a slip: a volume still being deleted is taken for gone
Mutant_delete_volume_poll ==
    /\ CanPoll("delete_volume")
    /\ LET w == list_volumes(World)
           volume == get_volume(World)
           seen == volume \in {Absent, "deleting"}
       IN  IF seen
           THEN LeaveAs("delete_volume", "returned", "True", w, Saw(volume))
           ELSE ContinueAs(w, seen, Saw(volume))

\* one round of delete_volume's wait loop
delete_volume_poll ==
    /\ CanPoll("delete_volume")
    /\ LET w == list_volumes(World)
           volume == get_volume(World)
           seen == volume = Absent
       IN  IF seen
           THEN LeaveAs("delete_volume", "returned", "True", w, Saw(volume))
           ELSE ContinueAs(w, seen, Saw(volume))

\* -------------------------------------------------------------------
\* users
create_user ==
    /\ kind = "user"
    /\ Idle
    /\ backend[Target] = Absent
    /\ \E fail \in BOOLEAN :
          LET created == Mutate(World, "UserCreate", Target, "present")
              w == invalidate(created, "list_users")
          IN  IF fail
              THEN Finish("create_user", "raised", "OpenStackCloudException",
                          submitTask(World, "UserCreate"))
              ELSE Finish("create_user", "returned", "present", w)

update_user ==
    /\ kind = "user"
    /\ Idle
    /\ \E fail \in BOOLEAN :
          LET found == list_users(invalidate(World, "list_users"))
              got == submitTask(found, "UserGet")
              updated == Mutate(got, "UserUpdate", Target, "present")
              w == invalidate(updated, "list_users")
          IN  IF found.val[Target] = Absent
              THEN Finish("update_user", "raised", "TypeError", found)
              ELSE IF fail
              THEN Finish("update_user", "raised", "OpenStackCloudException",
                          submitTask(got, "UserUpdate"))
              ELSE Finish("update_user", "returned", "present", w)

\* a slip: the list is not invalidated once the user is deleted
Mutant_delete_user ==
    /\ kind = "user"
    /\ Idle
    /\ \E fail \in BOOLEAN :
          LET found == list_users(invalidate(World, "list_users"))
              got == submitTask(found, "UserGet")
              w == Mutate(got, "UserDelete", Target, Absent)
          IN  IF found.val[Target] = Absent
              THEN Finish("delete_user", "returned", "False", found)
              ELSE IF fail
              THEN Finish("delete_user", "raised", "OpenStackCloudException",
                          submitTask(got, "UserDelete"))
              ELSE Finish("delete_user", "returned", "True", w)

delete_user ==
    /\ kind = "user"
    /\ Idle
    /\ \E fail \in BOOLEAN :
          LET found == list_users(invalidate(World, "list_users"))
              got == submitTask(found, "UserGet")
              deleted == Mutate(got, "UserDelete", Target, Absent)
              w == invalidate(deleted, "list_users")
          IN  IF found.val[Target] = Absent
              THEN Finish("delete_user", "returned", "False", found)
              ELSE IF fail
              THEN Finish("delete_user", "raised", "OpenStackCloudException",
                          submitTask(got, "UserDelete"))
              ELSE Finish("delete_user", "returned", "True", w)

\* -------------------------------------------------------------------
\* projects
create_project ==
    /\ kind = "project"
    /\ Idle
    /\ backend[Target] = Absent
    /\ \E fail \in BOOLEAN :
          LET created == Mutate(World, "ProjectCreate", Target, "present")
              w == invalidate(created, "list_projects")
          IN  IF fail
              THEN Finish("create_project", "raised",
                          "OpenStackCloudException",
                          submitTask(World, "ProjectCreate"))
              ELSE Finish("create_project", "returned", "present", w)

\* update_project as a function of the state it starts in: the state it
\* leaves, and whether it raised
update_project_in(w0, fail) ==
    LET found == list_projects(w0)
        updated == Mutate(found, "ProjectUpdate", Target, "present")
    IN  IF found.val[Target] = Absent
        THEN [w |-> found, raised |-> TRUE]
        ELSE IF fail
        THEN [w |-> submitTask(found, "ProjectUpdate"), raised |-> TRUE]
        ELSE [w |-> invalidate(updated, "list_projects"), raised |-> FALSE]

update_project ==
    /\ kind = "project"
    /\ Idle
    /\ \E fail \in BOOLEAN :
          LET r == update_project_in(World, fail)
          IN  IF r.raised
              THEN Finish("update_project", "raised",
                          "OpenStackCloudException", r.w)
              ELSE Finish("update_project", "returned", "present", r.w)

delete_project ==
    /\ kind = "project"
    /\ Idle
    /\ \E fail \in BOOLEAN, failDelete \in BOOLEAN :
          LET r == update_project_in(World, fail)
              w == Mutate(r.w, "ProjectDelete", Target, Absent)
          IN  IF r.raised
              THEN Finish("delete_project", "raised",
                          "OpenStackCloudException", r.w)
              ELSE IF failDelete
              THEN Finish("delete_project", "raised",
                          "OpenStackCloudException",
                          submitTask(r.w, "ProjectDelete"))
              ELSE Finish("delete_project", "returned", "None", w)

\* -------------------------------------------------------------------
\* images
\* the status of the image that get_image(name_or_id) finds
get_image(w) == list_images(w).val[Target]

create_image_snapshot ==
    /\ kind = "image"
    /\ Idle
    /\ backend[Target] = Absent
    /\ \E answer \in {"saving", "active", "raise"} :
          LET created == Mutate(World, "ImageSnapshotCreate", Target, answer)
              w == list_images(invalidate(created, "list_images"))
          IN  IF answer = "raise"
              THEN Finish("create_image_snapshot", "raised", "Exception",
                          submitTask(World, "ImageSnapshotCreate"))
              ELSE Finish("create_image_snapshot", "returned", w.val[Target],
                          w)

\* update_image_properties(name_or_id=...): changed tells whether a property
\* given differs from the image's
update_image_properties ==
    /\ kind = "image"
    /\ Idle
    /\ \E changed \in BOOLEAN, fail \in BOOLEAN :
          LET found == list_images(World)
              updated == Mutate(found, "ImageUpdate", Target,
                                found.backend[Target])
              w == invalidate(updated, "list_images")
          IN  IF found.val[Target] = Absent
              THEN Finish("update_image_properties", "raised",
                          "AttributeError", found)
              ELSE IF ~changed
              THEN Finish("update_image_properties", "returned", "False",
                          found)
              ELSE IF fail
              THEN Finish("update_image_properties", "raised", "Exception",
                          submitTask(found, "ImageUpdate"))
              ELSE Finish("update_image_properties", "returned", "True", w)

delete_image ==
    /\ kind = "image"
    /\ Idle
    /\ \E wait \in BOOLEAN, timeout \in Timeouts, fail \in BOOLEAN :
          LET found == list_images(World)
              deleted == Mutate(found, "ImageDelete", Target, "DELETED")
              w == invalidate(deleted, "list_images")
          IN  IF found.val[Target] = Absent
              THEN Finish("delete_image", "raised", "OpenStackCloudException",
                          found)
              ELSE IF fail
              THEN Finish("delete_image", "raised", "OpenStackCloudException",
                          submitTask(found, "ImageDelete"))
              ELSE IF wait
              THEN Enter("delete_image", w, timeout, timeout)
              ELSE Finish("delete_image", "returned", "None", w)

\* one round of delete_image's wait loop
delete_image_poll ==
    /\ CanPoll("delete_image")
    /\ LET w == list_images(invalidate_all(World))
           image == get_image(invalidate_all(World))
           seen == image = Absent
       IN  IF seen
           THEN LeaveAs("delete_image", "returned", "None", w, Saw(image))
           ELSE ContinueAs(w, seen, Saw(image))

\* -------------------------------------------------------------------
\* image import through the task API: create_image with
\* image_api_use_tasks set, which goes through _upload_image_task
\* how often task is among the tasks submitted
Count(submitted, task) ==
    Cardinality({i \in DOMAIN submitted : submitted[i] = task})

\* the cloud has made the resource id itself: what was read before is older
Appear(w, id, status) ==
    [w EXCEPT !.backend = [@ EXCEPT ![id] = status],
              !.cache = [key \in CacheKeys |->
                           IF key = KeyOf(kind) /\ @[key].has
                           THEN [@[key] EXCEPT !.stale = TRUE] ELSE @[key]]]

\* what ImageTaskGet may answer: the task's status, with the error-396
\* message or another, or HTTPServiceUnavailable
ImportAnswers == {"processing", "success", "failure396", "failure",
                  "unavailable"}

\* uptodate: the image exists with the checksums of the file
create_image ==
    /\ kind = "image"
    /\ Idle
    /\ \E wait \in BOOLEAN, timeout \in Timeouts, uptodate \in BOOLEAN,
          fail \in BOOLEAN :
          LET current == list_images(World)
              again == IF current.val[Target] = Absent
                       THEN list_images(current) ELSE current
              w == invalidate(submitTask(again, "ImageTaskCreate"),
                              "list_images")
          IN  IF current.val[Target] # Absent /\ uptodate
              THEN Finish("create_image", "returned", current.val[Target],
                          current)
              ELSE IF fail
              THEN Finish("create_image", "raised",
                          "OpenStackCloudException",
                          submitTask(again, "ImageTaskCreate"))
              ELSE IF wait
              THEN Enter("create_image", w, timeout, timeout)
              ELSE Finish("create_image", "returned", "glance_task", w)

\* a slip: the task created first is asked for in every round
Mutant_create_image_poll ==
    /\ CanPoll("create_image")
    /\ \E answer \in ImportAnswers, listed \in BOOLEAN, changed \in BOOLEAN :
          LET glance_task == Count(tasks, "ImageTaskCreate")
              status == IF loop.image_id THEN "success" ELSE answer
              asked == IF loop.image_id THEN World
                       ELSE submitTask(World, "ImageTaskGet")
              l == IF loop.image_id THEN Saw(status)
                   ELSE [Saw(status) EXCEPT !.got = 1]
              imported == list_images(IF listed
                                      THEN Appear(asked, Target, "active")
                                      ELSE asked)
              updated == IF changed
                         THEN invalidate(Mutate(imported, "ImageUpdate",
                                                Target,
                                                imported.backend[Target]),
                                         "list_images")
                         ELSE imported
              again == invalidate(submitTask(asked, "ImageTaskCreate"),
                                  "list_images")
          IN  IF status = "unavailable"
              THEN ContinueAs(asked, FALSE, [l EXCEPT !.saw = loop.saw])
              ELSE IF status = "success"
              THEN IF imported.val[Target] = Absent
                   THEN ContinueAs(imported, TRUE,
                                   [l EXCEPT !.image_id = TRUE])
                   ELSE LeaveAs("create_image", "returned",
                                list_images(updated).val[Target],
                                list_images(updated),
                                [l EXCEPT !.image_id = TRUE])
              ELSE IF status = "failure396"
              THEN ContinueAs(again, FALSE,
                              [l EXCEPT !.failed = @ \cup {glance_task}])
              ELSE IF status = "failure"
              THEN LeaveAs("create_image", "raised",
                           "OpenStackCloudException", asked, l)
              ELSE ContinueAs(asked, FALSE, l)

\* one round of the wait loop of _upload_image_task
\* listed: glance lists the imported image by now
\* changed: a property given differs from the image's
create_image_poll ==
    /\ CanPoll("create_image")
    /\ \E answer \in ImportAnswers, listed \in BOOLEAN, changed \in BOOLEAN :
          LET glance_task == Count(tasks, "ImageTaskCreate")
              status == IF loop.image_id THEN "success" ELSE answer
              asked == IF loop.image_id THEN World
                       ELSE submitTask(World, "ImageTaskGet")
              l == IF loop.image_id THEN Saw(status)
                   ELSE [Saw(status) EXCEPT !.got = glance_task]
              imported == list_images(IF listed
                                      THEN Appear(asked, Target, "active")
                                      ELSE asked)
              updated == IF changed
                         THEN invalidate(Mutate(imported, "ImageUpdate",
                                                Target,
                                                imported.backend[Target]),
                                         "list_images")
                         ELSE imported
              again == invalidate(submitTask(asked, "ImageTaskCreate"),
                                  "list_images")
          IN  IF status = "unavailable"
              THEN ContinueAs(asked, FALSE, [l EXCEPT !.saw = loop.saw])
              ELSE IF status = "success"
              THEN IF imported.val[Target] = Absent
                   THEN ContinueAs(imported, TRUE,
                                   [l EXCEPT !.image_id = TRUE])
                   ELSE LeaveAs("create_image", "returned",
                                list_images(updated).val[Target],
                                list_images(updated),
                                [l EXCEPT !.image_id = TRUE])
              ELSE IF status = "failure396"
              THEN ContinueAs(again, FALSE,
                              [l EXCEPT !.failed = @ \cup {glance_task}])
              ELSE IF status = "failure"
              THEN LeaveAs("create_image", "raised",
                           "OpenStackCloudException", asked, l)
              ELSE ContinueAs(asked, FALSE, l)

\* -------------------------------------------------------------------
\* stacks
\* the status of the stack that get_stack(name_or_id) finds
get_stack(w) == list_stacks(w).val[Target]

\* heat answers a StackDelete for a stack it does not hold with an error
delete_stack ==
    /\ kind = "stack"
    /\ Idle
    /\ \E fail \in BOOLEAN :
          LET found == list_stacks(World)
              w == Mutate(found, "StackDelete", Target, "DELETE_IN_PROGRESS")
          IN  IF get_stack(World) = Absent
              THEN Finish("delete_stack", "returned", "False", found)
              ELSE IF fail \/ found.backend[Target] = Absent
              THEN Finish("delete_stack", "raised", "OpenStackCloudException",
                          submitTask(found, "StackDelete"))
              ELSE Finish("delete_stack", "returned", "True", w)

create_stack ==
    /\ kind = "stack"
    /\ Idle
    /\ backend[Target] = Absent
    /\ \E wait \in BOOLEAN, timeout \in Timeouts, fail \in BOOLEAN :
          LET created == Mutate(World, "StackCreate", Target,
                                "CREATE_IN_PROGRESS")
          IN  IF fail
              THEN Finish("create_stack", "raised", "OpenStackCloudException",
                          submitTask(World, "StackCreate"))
              ELSE IF wait
              THEN Enter("create_stack", created, timeout, timeout)
              ELSE Finish("create_stack", "returned", "CREATE_IN_PROGRESS",
                          created)

\* one round of create_stack's wait loop: get_stack takes no cache argument
create_stack_poll ==
    /\ CanPoll("create_stack")
    /\ Leave("create_stack", "raised", "TypeError", World)

\* -------------------------------------------------------------------
\* attaching and detaching a volume: the caller passes the volume as it
\* has just read it
\* get_volume_attach_device: the volume's attachments name the server;
\* "error, attached" is a volume of status error that still has the
\* attachment
Attached(volume) == volume \in {"in-use", "error, attached"}

\* vol['status']
VolumeStatus(volume) ==
    IF volume = "error, attached" THEN "error" ELSE volume

\* a slip: the status of the volume is not looked at
Mutant_attach_volume ==
    /\ kind = "volume"
    /\ Idle
    /\ backend[Target] # Absent
    /\ \E wait \in BOOLEAN, timeout \in Timeouts, fail \in BOOLEAN :
          LET volume == backend[Target]
              attached == Mutate(World, "VolumeAttach", Target, "attaching")
          IN  IF Attached(volume)
              THEN Finish("attach_volume", "raised",
                          "OpenStackCloudException", World)
              ELSE IF fail
              THEN Finish("attach_volume", "raised",
                          "OpenStackCloudException",
                          submitTask(World, "VolumeAttach"))
              ELSE IF wait
              THEN Enter("attach_volume", attached, timeout, timeout)
              ELSE Finish("attach_volume", "returned", "attaching", attached)

attach_volume ==
    /\ kind = "volume"
    /\ Idle
    /\ backend[Target] # Absent
    /\ \E wait \in BOOLEAN, timeout \in Timeouts, fail \in BOOLEAN :
          LET volume == backend[Target]
              attached == Mutate(World, "VolumeAttach", Target, "attaching")
          IN  IF Attached(volume) \/ VolumeStatus(volume) # "available"
              THEN Finish("attach_volume", "raised",
                          "OpenStackCloudException", World)
              ELSE IF fail
              THEN Finish("attach_volume", "raised",
                          "OpenStackCloudException",
                          submitTask(World, "VolumeAttach"))
              ELSE IF wait
              THEN Enter("attach_volume", attached, timeout, timeout)
              ELSE Finish("attach_volume", "returned", "attaching", attached)

\* one round of attach_volume's wait loop; fail: get_volume raises
attach_volume_poll ==
    /\ CanPoll("attach_volume")
    /\ \E fail \in BOOLEAN :
          LET w == list_volumes(World)
              vol == get_volume(World)
          IN  IF fail
              THEN ContinueAs(submitTask(World, "VolumeList"), FALSE,
                              Saw("exception"))
              ELSE IF vol = Absent
              THEN LeaveAs("attach_volume", "raised", "TypeError", w,
                           Saw(vol))
              ELSE IF Attached(vol)
              THEN LeaveAs("attach_volume", "returned", vol, w, Saw(vol))
              ELSE IF VolumeStatus(vol) = "error"
              THEN LeaveAs("attach_volume", "raised",
                           "OpenStackCloudException", w, Saw(vol))
              ELSE ContinueAs(w, FALSE, Saw(vol))

detach_volume ==
    /\ kind = "volume"
    /\ Idle
    /\ backend[Target] # Absent
    /\ \E wait \in BOOLEAN, timeout \in Timeouts, fail \in BOOLEAN :
          LET volume == backend[Target]
              detached == Mutate(World, "VolumeDetach", Target, "detaching")
          IN  IF ~Attached(volume)
              THEN Finish("detach_volume", "raised",
                          "OpenStackCloudException", World)
              ELSE IF fail
              THEN Finish("detach_volume", "raised",
                          "OpenStackCloudException",
                          submitTask(World, "VolumeDetach"))
              ELSE IF wait
              THEN Enter("detach_volume", detached, timeout, timeout)
              ELSE Finish("detach_volume", "returned", "None", detached)

\* one round of detach_volume's wait loop; fail: get_volume raises
detach_volume_poll ==
    /\ CanPoll("detach_volume")
    /\ \E fail \in BOOLEAN :
          LET w == list_volumes(World)
              vol == get_volume(World)
          IN  IF fail
              THEN ContinueAs(submitTask(World, "VolumeList"), FALSE,
                              Saw("exception"))
              ELSE IF vol = Absent
              THEN LeaveAs("detach_volume", "raised", "TypeError", w,
                           Saw(vol))
              ELSE IF VolumeStatus(vol) = "available"
              THEN LeaveAs("detach_volume", "returned", "None", w, Saw(vol))
              ELSE IF VolumeStatus(vol) = "error"
              THEN LeaveAs("detach_volume", "raised",
                           "OpenStackCloudException", w, Saw(vol))
              ELSE ContinueAs(w, FALSE, Saw(vol))

\* -------------------------------------------------------------------
\* volume snapshots: read by id, not through a memoized list
create_volume_snapshot ==
    /\ kind = "snapshot"
    /\ Idle
    /\ backend[Target] = Absent
    /\ \E wait \in BOOLEAN, timeout \in Timeouts, fail \in BOOLEAN :
          LET created == Mutate(World, "VolumeSnapshotCreate", Target,
                                "creating")
          IN  IF fail
              THEN Finish("create_volume_snapshot", "raised",
                          "OpenStackCloudException",
                          submitTask(World, "VolumeSnapshotCreate"))
              ELSE IF wait
              THEN Enter("create_volume_snapshot", created, timeout, timeout)
              ELSE Finish("create_volume_snapshot", "returned", "creating",
                          created)

Mutant_create_volume_snapshot_poll ==
    /\ CanPoll("create_volume_snapshot")
    /\ \E fail \in BOOLEAN :
          LET w == submitTask(World, "VolumeSnapshotGet")
              snapshot == w.backend[Target]
          IN  IF fail
              THEN LeaveAs("create_volume_snapshot", "raised",
                           "OpenStackCloudException", w, Saw("exception"))
              ELSE IF snapshot = Absent
              THEN LeaveAs("create_volume_snapshot", "raised",
                           "OpenStackCloudException", w, Saw(snapshot))
              ELSE IF snapshot # "error"
              THEN LeaveAs("create_volume_snapshot", "returned", snapshot, w,
                           Saw(snapshot))
              ELSE LeaveAs("create_volume_snapshot", "raised",
                           "OpenStackCloudException", w, Saw(snapshot))

\* one round of create_volume_snapshot's wait loop
\* VolumeSnapshotGet raises for a snapshot that is gone, or by itself
create_volume_snapshot_poll ==
    /\ CanPoll("create_volume_snapshot")
    /\ \E fail \in BOOLEAN :
          LET w == submitTask(World, "VolumeSnapshotGet")
              snapshot == w.backend[Target]
          IN  IF fail
              THEN LeaveAs("create_volume_snapshot", "raised",
                           "OpenStackCloudException", w, Saw("exception"))
              ELSE IF snapshot = Absent
              THEN LeaveAs("create_volume_snapshot", "raised",
                           "OpenStackCloudException", w, Saw(snapshot))
              ELSE IF snapshot = "available"
              THEN LeaveAs("create_volume_snapshot", "returned", snapshot, w,
                           Saw(snapshot))
              ELSE IF snapshot = "error"
              THEN LeaveAs("create_volume_snapshot", "raised",
                           "OpenStackCloudException", w, Saw(snapshot))
              ELSE ContinueAs(w, FALSE, Saw(snapshot))

\* -------------------------------------------------------------------
\* servers, as the one caller of the verb sees them
create_server ==
    /\ kind = "server"
    /\ Idle
    /\ backend[Target] = Absent
    /\ \E wait \in BOOLEAN, timeout \in Timeouts,
          answer \in {"BUILD", "ERROR", "raise"} :
          LET created == Mutate(World, "ServerCreate", Target, answer)
              got == submitTask(created, "ServerGet")
          IN  IF answer = "raise"
              THEN Finish("create_server", "raised",
                          "OpenStackCloudException",
                          submitTask(World, "ServerCreate"))
              ELSE IF wait
              THEN Enter("create_server", created, timeout, timeout)
              ELSE IF answer = "ERROR"
              THEN Finish("create_server", "raised",
                          "OpenStackCloudException", got)
              ELSE Finish("create_server", "returned", answer, got)

Mutant_create_server_poll ==
    /\ CanPoll("create_server")
    /\ \E fresh \in BOOLEAN, fail \in BOOLEAN,
          ips \in {"ok", "raise", "timeout"} :
          LET w == IF fresh THEN submitTask(World, "ServerList") ELSE World
              server == IF fresh THEN w.backend[Target] ELSE Absent
              deleted == Mutate(w, "ServerDelete", Target, Absent)
              attached == submitTask(submitTask(w, "NovaFloatingIPAttach"),
                                     "ServerGet")
          IN  IF fail
              THEN ContinueAs(w, FALSE, Saw("exception"))
              ELSE IF server = Absent
              THEN ContinueAs(w, FALSE, Saw(server))
              ELSE IF server = "ERROR"
              THEN LeaveAs("create_server", "raised",
                           "OpenStackCloudException", w, Saw(server))
              ELSE IF server = "ACTIVE"
              THEN IF ips = "ok"
                   THEN LeaveAs("create_server", "returned", server, w,
                                Saw(server))
                   ELSE IF ips = "timeout"
                   THEN LeaveAs("create_server", "raised",
                                "OpenStackCloudTimeout", deleted,
                                Saw(server))
                   ELSE LeaveAs("create_server", "raised",
                                "OpenStackCloudException", w, Saw(server))
              ELSE IF server = "ACTIVE, no addresses"
              THEN LeaveAs("create_server", "raised",
                           "OpenStackCloudException", deleted, Saw(server))
              ELSE ContinueAs(w, FALSE, Saw(server))


\* a slip: get_active_server does not look at the addresses of an ACTIVE
\* server
Mutant_get_active_server ==
    /\ CanPoll("create_server")
    /\ \E fresh \in BOOLEAN, fail \in BOOLEAN,
          ips \in {"ok", "raise", "timeout"} :
          LET w == IF fresh THEN submitTask(World, "ServerList") ELSE World
              server == IF fresh THEN w.backend[Target] ELSE Absent
              deleted == Mutate(w, "ServerDelete", Target, Absent)
              attached == submitTask(submitTask(w, "NovaFloatingIPAttach"),
                                     "ServerGet")
          IN  IF fail
              THEN ContinueAs(w, FALSE, Saw("exception"))
              ELSE IF server = Absent
              THEN ContinueAs(w, FALSE, Saw(server))
              ELSE IF server = "ERROR"
              THEN LeaveAs("create_server", "raised",
                           "OpenStackCloudException", w, Saw(server))
              ELSE IF server = "ACTIVE"
              THEN IF ips = "ok"
                   THEN LeaveAs("create_server", "returned", server, w,
                                Saw(server))
                   ELSE IF ips = "timeout"
                   THEN LeaveAs("create_server", "raised",
                                "OpenStackCloudTimeout", attached,
                                Saw(server))
                   ELSE LeaveAs("create_server", "raised",
                                "OpenStackCloudException", w, Saw(server))
              ELSE IF server = "ACTIVE, no addresses"
              THEN LeaveAs("create_server", "returned", server, w,
                           Saw(server))
              ELSE ContinueAs(w, FALSE, Saw(server))

\* one round of create_server's wait loop: get_server, get_active_server
\* fresh: list_servers refreshes its snapshot, otherwise the snapshot is one
\* from before the server was created; fail: get_server raises;
\* ips: add_ips_to_server returns the server, raises, or attaches a
\* floating address and runs out of time in _attach_ip_to_server's own wait
\* loop, whose rounds read the server by id
create_server_poll ==
    /\ CanPoll("create_server")
    /\ \E fresh \in BOOLEAN, fail \in BOOLEAN,
          ips \in {"ok", "raise", "timeout"} :
          LET w == IF fresh THEN submitTask(World, "ServerList") ELSE World
              server == IF fresh THEN w.backend[Target] ELSE Absent
              deleted == Mutate(w, "ServerDelete", Target, Absent)
              attached == submitTask(submitTask(w, "NovaFloatingIPAttach"),
                                     "ServerGet")
          IN  IF fail
              THEN ContinueAs(w, FALSE, Saw("exception"))
              ELSE IF server = Absent
              THEN ContinueAs(w, FALSE, Saw(server))
              ELSE IF server = "ERROR"
              THEN LeaveAs("create_server", "raised",
                           "OpenStackCloudException", w, Saw(server))
              ELSE IF server = "ACTIVE"
              THEN IF ips = "ok"
                   THEN LeaveAs("create_server", "returned", server, w,
                                Saw(server))
                   ELSE IF ips = "timeout"
                   THEN LeaveAs("create_server", "raised",
                                "OpenStackCloudTimeout", attached,
                                Saw(server))
                   ELSE LeaveAs("create_server", "raised",
                                "OpenStackCloudException", w, Saw(server))
              ELSE IF server = "ACTIVE, no addresses"
              THEN LeaveAs("create_server", "raised",
                           "OpenStackCloudException", deleted, Saw(server))
              ELSE ContinueAs(w, FALSE, Saw(server))

rebuild_server ==
    /\ kind = "server"
    /\ Idle
    /\ backend[Target] # Absent
    /\ \E wait \in BOOLEAN, timeout \in Timeouts, fail \in BOOLEAN :
          LET rebuilt == Mutate(World, "ServerRebuild", Target, "REBUILD")
          IN  IF fail
              THEN Finish("rebuild_server", "raised",
                          "OpenStackCloudException",
                          submitTask(World, "ServerRebuild"))
              ELSE IF wait
              THEN Enter("rebuild_server", rebuilt, timeout, timeout)
              ELSE Finish("rebuild_server", "returned", "REBUILD", rebuilt)

\* one round of rebuild_server's wait loop; get_server_by_id raises for a
\* server that is gone, or by itself
rebuild_server_poll ==
    /\ CanPoll("rebuild_server")
    /\ \E fail \in BOOLEAN :
          LET w == submitTask(World, "ServerGet")
              server == w.backend[Target]
          IN  IF fail
              THEN ContinueAs(w, FALSE, Saw("exception"))
              ELSE IF server = Absent
              THEN ContinueAs(w, FALSE, Saw(server))
              ELSE IF server \in {"ACTIVE", "ACTIVE, no addresses"}
              THEN LeaveAs("rebuild_server", "returned", server, w,
                           Saw(server))
              ELSE IF server = "ERROR"
              THEN LeaveAs("rebuild_server", "raised",
                           "OpenStackCloudException", w, Saw(server))
              ELSE ContinueAs(w, FALSE, Saw(server))

\* ===================================================================
\* Floating IPs and security groups: the backend of each call
\* ===================================================================
\* how a neutron task answers: it succeeds, or neutron_exceptions raises
NeutronAnswers == {"ok", "OpenStackCloudURINotFound",
                   "OpenStackCloudResourceNotFound",
                   "OpenStackCloudException"}

\* how a nova task answers
NovaAnswers == {"ok", "NotFound", "Exception"}

\* the answers of one call: nlist and nop of neutron's list and other
\* tasks, vlist and vop of nova's; extnet: an external network is known;
\* avail: a floating IP is free; fip: the floating IP asked for, as listed;
\* already: the server has the floating IP; found: the security group asked
\* for is listed; wait and skip_attach: arguments of _attach_ip_to_server;
\* waited: what its wait loop meets; reuse: argument of _add_auto_ip;
\* server: a server is handed to create_floating_ip; port: what
\* search_ports finds for that server
Quiet == [nlist |-> "ok", nop |-> "ok", vlist |-> "ok", vop |-> "ok",
          extnet |-> TRUE, avail |-> TRUE, fip |-> "detached",
          already |-> FALSE, found |-> TRUE,
          wait |-> FALSE, skip_attach |-> FALSE, waited |-> "seen",
          reuse |-> TRUE, server |-> FALSE, port |-> None]

\* what the wait loop of _attach_ip_to_server meets: the address shows on
\* the server, the time runs out, or ServerGet raises
Waited == {"seen", "timeout", "Exception"}

\* a call so far: the tasks submitted, the fallbacks logged, and the errors
\* the neutron branch raised, each with the number of tasks submitted by then
NoTrace == [tasks |-> <<>>, events |-> 0, errs |-> <<>>]

NoRequest == [verb |-> "none", a |-> Quiet]

NoResult == [tasks |-> <<>>, events |-> 0, errs |-> <<>>, st |-> "none",
             out |-> None, by |-> "none"]

\* return out, which backend by produced
Ret(t, out, by) ==
    [tasks |-> t.tasks, events |-> t.events, errs |-> t.errs,
     st |-> "returned", out |-> out, by |-> by]

\* raise exc, which backend by raised
Raise(t, exc, by) ==
    [tasks |-> t.tasks, events |-> t.events, errs |-> t.errs,
     st |-> "raised", out |-> exc, by |-> by]

\* the neutron branch raises exc
neutron_raise(t, exc) ==
    Raise([t EXCEPT !.errs = Append(@, [at |-> Len(t.tasks), exc |-> exc])],
          exc, "neutron")

\* self.manager.submitTask(task)
submit(t, task) == [t EXCEPT !.tasks = Append(@, task)]

\* self.log.debug("Something went wrong talking to neutron API ...
\* Trying with Nova.")
LogFallback(t) == [t EXCEPT !.events = @ + 1]

\* except OpenStackCloudURINotFound
IsURINotFound(r) ==
    r.st = "raised" /\ r.out = "OpenStackCloudURINotFound"

\* with _utils.neutron_exceptions(...): submitTask(task)
neutron_task(t, task, answer, out) ==
    IF answer = "ok" THEN Ret(submit(t, task), out, "neutron")
    ELSE neutron_raise(submit(t, task), answer)

\* with _utils.shade_exceptions(...): submitTask(task)
nova_task(t, task, answer, out) ==
    IF answer = "ok" THEN Ret(submit(t, task), out, "nova")
    ELSE Raise(submit(t, task), "OpenStackCloudException", "nova")

\* no function has been applied
\* -------------------------------------------------------------------
\* what the connection remembers by itself
\* the networks a cloud may hold: n1 routes northbound, n2 does not
Networks == {"n1", "n2"}

\* the containers a caller names
Containers == {"c1", "c2"}

\* name not in self._container_cache
Missing == "missing"

\* cloud_config.config.get(...) of a cloud that configures nothing
DefaultConfig ==
    [external_network |-> None, use_external_network |-> TRUE,
     internal_network |-> None, use_internal_network |-> TRUE]

NotCalled == [verb |-> "none"]

NoAnswer == [st |-> "none", out |-> None, tasks |-> <<>>]

NoneYet == [done |-> FALSE, out |-> {}]

\* __init__: no network found and none looked for, no container fetched
ConIdle ==
    /\ cloud_config = DefaultConfig
    /\ _external_networks = {}
    /\ _external_network_stamp = FALSE
    /\ _internal_networks = {}
    /\ _internal_network_stamp = FALSE
    /\ neutron = {}
    /\ _container_cache = [name \in Containers |-> Missing]
    /\ swift = {}
    /\ called = NotCalled
    /\ answered = NoAnswer
    /\ first = [external |-> NoneYet, internal |-> NoneYet]

NoCall == [fn |-> "none"]

FnIdle ==
    /\ applied = NoCall
    /\ value = None

NetIdle ==
    /\ has_network = FALSE
    /\ secgroup_source = None
    /\ request = NoRequest
    /\ result = NoResult
    /\ FnIdle
    /\ ConIdle

NetInit ==
    /\ has_network \in BOOLEAN
    /\ secgroup_source \in {None, "neutron", "nova"}
    /\ request = NoRequest
    /\ result = NoResult
    /\ FnIdle
    /\ ConIdle

\* -------------------------------------------------------------------
\* floating IPs
_neutron_list_floating_ips(t, a) ==
    neutron_task(t, "NeutronFloatingIPList", a.nlist, "ips")

_nova_list_floating_ips(t, a) ==
    nova_task(t, "NovaFloatingIPList", a.vlist, "ips")

list_floating_ips(t, a) ==
    IF has_network
    THEN LET n == _neutron_list_floating_ips(t, a)
         IN  IF IsURINotFound(n)
             THEN _nova_list_floating_ips(LogFallback(n), a)
             ELSE n
    ELSE _nova_list_floating_ips(t, a)

\* search_floating_ips(id=id): the floating IP as listed, or None
get_floating_ip(t, a) ==
    LET l == list_floating_ips(t, a)
    IN  IF l.st = "raised" THEN l ELSE Ret(l, a.fip, l.by)

\* _get_free_fixed_port(server): the one port of the server with its first
\* IPv4 address, (None, None) for a server without ports, an error for a
\* server with several ports or no IPv4 address
_get_free_fixed_port(t, a) ==
    LET ports == neutron_task(t, "PortList", a.nlist, a.port)
    IN  IF ports.st = "returned" /\ a.port = "ambiguous"
        THEN Raise(ports, "OpenStackCloudException", "neutron")
        ELSE ports

\* the floating IP is created on the server's port when a server is given
\* and a port is found for it
_neutron_create_floating_ip(t, a) ==
    IF ~a.extnet
    THEN neutron_raise(t, "OpenStackCloudResourceNotFound")
    ELSE IF a.server
    THEN LET port == _get_free_fixed_port(t, a)
         IN  IF port.st = "raised" THEN port
             ELSE neutron_task(port, "NeutronFloatingIPCreate", a.nop,
                               IF port.out = None THEN "ip" ELSE "bound ip")
    ELSE neutron_task(t, "NeutronFloatingIPCreate", a.nop, "ip")

_nova_create_floating_ip(t, a) ==
    LET pools == nova_task(t, "FloatingIPPoolList", a.vlist, "pools")
    IN  IF pools.st = "raised" THEN pools
        ELSE nova_task(pools, "NovaFloatingIPCreate", a.vop, "ip")

create_floating_ip(t, a) ==
    IF has_network
    THEN LET n == _neutron_create_floating_ip(t, a)
         IN  IF IsURINotFound(n)
             THEN _nova_create_floating_ip(LogFallback(n), a)
             ELSE n
    ELSE _nova_create_floating_ip(t, a)

_neutron_available_floating_ips(t, a) ==
    LET l == _neutron_list_floating_ips(t, a)
    IN  IF ~a.extnet
        THEN neutron_raise(t, "OpenStackCloudResourceNotFound")
        ELSE IF l.st = "raised" THEN l
        ELSE IF a.avail THEN Ret(l, "ip", "neutron")
        ELSE _neutron_create_floating_ip(l, a)

_nova_available_floating_ips(t, a) ==
    LET pools == nova_task(t, "FloatingIPPoolList", a.vlist, "pools")
        l == _nova_list_floating_ips(pools, a)
    IN  IF pools.st = "raised" THEN pools
        ELSE IF l.st = "raised" THEN l
        ELSE IF a.avail THEN Ret(l, "ip", "nova")
        ELSE nova_task(l, "NovaFloatingIPCreate", a.vop, "ip")

available_floating_ip(t, a) ==
    IF has_network
    THEN LET n == _neutron_available_floating_ips(t, a)
         IN  IF IsURINotFound(n)
             THEN _nova_available_floating_ips(LogFallback(n), a)
             ELSE n
    ELSE _nova_available_floating_ips(t, a)

_neutron_delete_floating_ip(t, a) ==
    LET r == neutron_task(t, "NeutronFloatingIPDelete", a.nop, "True")
    IN  IF r.st = "raised" /\ r.out = "OpenStackCloudResourceNotFound"
        THEN Ret(r, "False", "neutron")
        ELSE r

_nova_delete_floating_ip(t, a) ==
    LET r == submit(t, "NovaFloatingIPDelete")
    IN  IF a.vop = "ok" THEN Ret(r, "True", "nova")
        ELSE IF a.vop = "NotFound" THEN Ret(r, "False", "nova")
        ELSE Raise(r, "OpenStackCloudException", "nova")

\* a slip: a floating IP neutron does not hold is looked for in nova
Mutant_delete_floating_ip(t, a) ==
    IF has_network
    THEN LET n == neutron_task(t, "NeutronFloatingIPDelete", a.nop, "True")
         IN  IF n.st = "raised"
                /\ n.out \in {"OpenStackCloudURINotFound",
                              "OpenStackCloudResourceNotFound"}
             THEN _nova_delete_floating_ip(LogFallback(n), a)
             ELSE n
    ELSE _nova_delete_floating_ip(t, a)

delete_floating_ip(t, a) ==
    IF has_network
    THEN LET n == _neutron_delete_floating_ip(t, a)
         IN  IF IsURINotFound(n)
             THEN _nova_delete_floating_ip(LogFallback(n), a)
             ELSE n
    ELSE _nova_delete_floating_ip(t, a)

\* the server has one port, found by search_ports
_neutron_attach_ip_to_server(t, a) ==
    LET ports == neutron_task(t, "PortList", a.nlist, "ports")
    IN  IF ports.st = "raised" THEN ports
        ELSE neutron_task(ports, "NeutronFloatingIPUpdate", a.nop, "ip")

_nova_attach_ip_to_server(t, a) ==
    LET f_ip == get_floating_ip(t, a)
    IN  IF f_ip.st = "raised" THEN f_ip
        ELSE IF f_ip.out = None
        THEN Raise(f_ip, "OpenStackCloudException", "nova")
        ELSE nova_task(f_ip, "NovaFloatingIPAttach", a.vop, "ip")

\* the wait loop of _attach_ip_to_server: get_server_by_id until the
\* address shows on the server
wait_for_address(t, a) ==
    LET polled == submit(t, "ServerGet")
    IN  IF a.waited = "seen" THEN Ret(polled, "server", t.by)
        ELSE IF a.waited = "timeout"
        THEN Raise(polled, "OpenStackCloudTimeout", t.by)
        ELSE Raise(polled, "Exception", "nova")

\* the attach step of _attach_ip_to_server
attach_step(t, a) ==
    IF has_network
    THEN IF a.skip_attach THEN Ret(t, "server", "none")
         ELSE LET n == _neutron_attach_ip_to_server(t, a)
              IN  IF IsURINotFound(n)
                  THEN Ret(LogFallback(n), "server", "none")
                  ELSE IF n.st = "raised" THEN n
                  ELSE Ret(n, "server", "neutron")
    ELSE LET v == _nova_attach_ip_to_server(t, a)
         IN  IF v.st = "raised" THEN v ELSE Ret(v, "server", "nova")

Mutant_attach_ip_to_server(t, a) ==
    LET attached == IF a.already THEN Ret(t, "server", "none")
                    ELSE attach_step(t, a)
    IN  IF attached.st = "raised" \/ ~a.wait THEN attached
        ELSE wait_for_address(attached, a)

\* _attach_ip_to_server(server, floating_ip, fixed_address, wait, timeout,
\* skip_attach); fixed_address is only handed on to the attach step
_attach_ip_to_server(t, a) ==
    IF a.already THEN Ret(t, "server", "none")
    ELSE LET attached == attach_step(t, a)
         IN  IF attached.st = "raised" \/ ~a.wait THEN attached
             ELSE wait_for_address(attached, a)

\* _add_auto_ip(server, wait, timeout, reuse): with reuse=False the IP is
\* created for the server and the attach step is told to skip the attach
_add_auto_ip(t, a) ==
    LET f_ip == IF a.reuse
                THEN available_floating_ip(t, [a EXCEPT !.server = FALSE])
                ELSE create_floating_ip(t, [a EXCEPT !.server = TRUE])
    IN  IF f_ip.st = "raised" THEN f_ip
        ELSE _attach_ip_to_server(f_ip, [a EXCEPT !.skip_attach = ~a.reuse])

_neutron_detach_ip_from_server(t, a) ==
    LET f_ip == get_floating_ip(t, a)
    IN  IF f_ip.st = "raised" THEN f_ip
        ELSE IF f_ip.out = None \/ f_ip.out = "detached"
        THEN Ret(f_ip, "False", "neutron")
        ELSE neutron_task(f_ip, "NeutronFloatingIPUpdate", a.nop, "True")

_nova_detach_ip_from_server(t, a) ==
    LET f_ip == get_floating_ip(t, a)
    IN  IF f_ip.st = "raised" THEN f_ip
        ELSE IF f_ip.out = None
        THEN Raise(f_ip, "OpenStackCloudException", "nova")
        ELSE nova_task(f_ip, "NovaFloatingIPDetach", a.vop, "True")

\* the nova branch ends without a return statement
detach_ip_from_server(t, a) ==
    LET n == _neutron_detach_ip_from_server(t, a)
        v == _nova_detach_ip_from_server(
                 IF has_network THEN LogFallback(n) ELSE t, a)
    IN  IF has_network /\ ~IsURINotFound(n) THEN n
        ELSE IF v.st = "raised" THEN v
        ELSE Ret(v, None, "none")

\* -------------------------------------------------------------------
\* security groups
list_server_security_groups(t, a) ==
    IF secgroup_source \notin {"nova", "neutron"} THEN Ret(t, "[]", "none")
    ELSE nova_task(t, "ServerListSecurityGroups", a.vop, "groups")

\* a slip: a cloud with no security-group backend is asked through nova
Mutant_list_security_groups(t, a) ==
    IF secgroup_source = "neutron"
    THEN neutron_task(t, "NeutronSecurityGroupList", a.nlist, "groups")
    ELSE nova_task(t, "NovaSecurityGroupList", a.vlist, "groups")

list_security_groups(t, a) ==
    IF secgroup_source = "neutron"
    THEN neutron_task(t, "NeutronSecurityGroupList", a.nlist, "groups")
    ELSE IF secgroup_source = "nova"
    THEN nova_task(t, "NovaSecurityGroupList", a.vlist, "groups")
    ELSE Raise(t, "OpenStackCloudUnavailableFeature", "none")

\* search_security_groups(name_or_id): the group as listed, or None
get_security_group(t, a) ==
    LET l == list_security_groups(t, a)
    IN  IF l.st = "raised" THEN l
        ELSE Ret(l, IF a.found THEN "group" ELSE None, l.by)

create_security_group(t, a) ==
    IF secgroup_source = "neutron"
    THEN neutron_task(t, "NeutronSecurityGroupCreate", a.nop, "group")
    ELSE IF secgroup_source = "nova"
    THEN nova_task(t, "NovaSecurityGroupCreate", a.vop, "group")
    ELSE Raise(t, "OpenStackCloudUnavailableFeature", "none")

delete_security_group(t, a) ==
    LET secgroup == get_security_group(t, a)
    IN  IF secgroup.st = "raised" THEN secgroup
        ELSE IF secgroup.out = None THEN Ret(secgroup, "False", secgroup.by)
        ELSE IF secgroup_source = "neutron"
        THEN neutron_task(secgroup, "NeutronSecurityGroupDelete", a.nop,
                          "True")
        ELSE IF secgroup_source = "nova"
        THEN nova_task(secgroup, "NovaSecurityGroupDelete", a.vop, "True")
        ELSE Raise(secgroup, "OpenStackCloudUnavailableFeature", "none")

update_security_group(t, a) ==
    LET secgroup == get_security_group(t, a)
    IN  IF secgroup.st = "raised" THEN secgroup
        ELSE IF secgroup.out = None
        THEN Raise(secgroup, "OpenStackCloudException", "none")
        ELSE IF secgroup_source = "neutron"
        THEN neutron_task(secgroup, "NeutronSecurityGroupUpdate", a.nop,
                          "group")
        ELSE IF secgroup_source = "nova"
        THEN nova_task(secgroup, "NovaSecurityGroupUpdate", a.vop, "group")
        ELSE Raise(secgroup, "OpenStackCloudUnavailableFeature", "none")

\* a rule with a protocol and direction ingress
create_security_group_rule(t, a) ==
    LET secgroup == get_security_group(t, a)
    IN  IF secgroup.st = "raised" THEN secgroup
        ELSE IF secgroup.out = None
        THEN Raise(secgroup, "OpenStackCloudException", "none")
        ELSE IF secgroup_source = "neutron"
        THEN neutron_task(secgroup, "NeutronSecurityGroupRuleCreate", a.nop,
                          "rule")
        ELSE IF secgroup_source = "nova"
        THEN nova_task(secgroup, "NovaSecurityGroupRuleCreate", a.vop,
                       "rule")
        ELSE Raise(secgroup, "OpenStackCloudUnavailableFeature", "none")

delete_security_group_rule(t, a) ==
    LET n == neutron_task(t, "NeutronSecurityGroupRuleDelete", a.nop, "True")
        v == submit(t, "NovaSecurityGroupRuleDelete")
    IN  IF secgroup_source = "neutron"
        THEN IF n.st = "raised" /\ n.out = "OpenStackCloudResourceNotFound"
             THEN Ret(n, "False", "neutron")
             ELSE n
        ELSE IF secgroup_source = "nova"
        THEN IF a.vop = "ok" THEN Ret(v, "True", "nova")
             ELSE IF a.vop = "NotFound" THEN Ret(v, "False", "nova")
             ELSE Raise(v, "OpenStackCloudException", "nova")
        ELSE Raise(t, "OpenStackCloudUnavailableFeature", "none")

\* ===================================================================
\* list_servers
\* ===================================================================
NoSnapshot == [fetch |-> 0, servers |-> {}]

len(snapshot) == Cardinality(snapshot.servers)

\* the outcome of a list_servers call
NoReturn == [st |-> "none", val |-> NoSnapshot]
Raised == [st |-> "raised", val |-> NoSnapshot]
Returned(snapshot) == [st |-> "returned", val |-> snapshot]

\* _delete_server has not been called
DelIdle ==
    /\ dpc = "idle"
    /\ dwait = FALSE
    /\ dtime = 0
    /\ dret = "none"
    /\ dfetch = 0

SrvInit ==
    /\ _SERVER_AGE \in {0, DEFAULT_SERVER_AGE}
    /\ _servers = NoSnapshot
    /\ _servers_time = 0
    /\ _servers_lock = FALSE
    /\ now = Epoch
    /\ cloud \in SUBSET ServerIds
    /\ fetches = 0
    /\ pc = [t \in Threads |-> "idle"]
    /\ blocking = [t \in Threads |-> FALSE]
    /\ fetched = [t \in Threads |-> NoSnapshot]
    /\ ret = [t \in Threads |-> NoReturn]
    /\ calls = [t \in Threads |-> 0]
    /\ cold = [t \in Threads |-> FALSE]
    /\ had = [t \in Threads |-> FALSE]
    /\ late = [t \in Threads |-> FALSE]
    /\ DelIdle

\* the calls the first n callers have made
RECURSIVE Made(_)
Made(n) == IF n = 0 THEN 0 ELSE calls[n] + Made(n - 1)

\* a caller enters list_servers
ls_call(t) ==
    /\ pc[t] \in {"idle", "done", "raised"}
    /\ Made(NumThreads) < MaxCalls
    /\ pc' = [pc EXCEPT ![t] = "check"]
    /\ calls' = [calls EXCEPT ![t] = @ + 1]
    /\ cold' = [cold EXCEPT ![t] = (fetches = 0)]
    /\ late' = [late EXCEPT ![t] = (dret = "True")]
    /\ ret' = [ret EXCEPT ![t] = NoReturn]
    /\ UNCHANGED <<resVars, netVars>>
    /\ UNCHANGED <<_SERVER_AGE, _servers, _servers_time, _servers_lock, now,
                   cloud, fetches, blocking, fetched>>
    /\ UNCHANGED <<had, delVars>>

\* a slip: the age is not looked at and every call refreshes
Mutant_ls_check(t) ==
    /\ pc[t] = "check"
    /\ pc' = [pc EXCEPT ![t] = "arg"]
    /\ UNCHANGED <<resVars, netVars>>
    /\ UNCHANGED <<_SERVER_AGE, _servers, _servers_time, _servers_lock, now,
                   cloud, fetches, blocking, fetched, ret, calls, cold>>
    /\ UNCHANGED <<had, late, delVars>>

\* if (time.time() - self._servers_time) >= self._SERVER_AGE
ls_check(t) ==
    /\ pc[t] = "check"
    /\ pc' = [pc EXCEPT ![t] =
                IF (now - _servers_time) >= _SERVER_AGE THEN "arg" ELSE "ret"]
    /\ UNCHANGED <<resVars, netVars>>
    /\ UNCHANGED <<_SERVER_AGE, _servers, _servers_time, _servers_lock, now,
                   cloud, fetches, blocking, fetched, ret, calls, cold>>
    /\ UNCHANGED <<had, late, delVars>>

\* the argument of acquire: len(self._servers) == 0
ls_arg(t) ==
    /\ pc[t] = "arg"
    /\ blocking' = [blocking EXCEPT ![t] = (len(_servers) = 0)]
    /\ had' = [had EXCEPT ![t] = (_servers.fetch > 0)]
    /\ pc' = [pc EXCEPT ![t] = "acquire"]
    /\ UNCHANGED <<resVars, netVars>>
    /\ UNCHANGED <<_SERVER_AGE, _servers, _servers_time, _servers_lock, now,
                   cloud, fetches, fetched, ret, calls, cold>>
    /\ UNCHANGED <<late, delVars>>

\* a slip: the caller goes on to refresh whether or not it got the lock
Mutant_ls_acquire(t) ==
    /\ pc[t] = "acquire"
    /\ _servers_lock' = TRUE
    /\ pc' = [pc EXCEPT ![t] = "fetch"]
    /\ blocking' = [blocking EXCEPT ![t] = FALSE]
    /\ had' = [had EXCEPT ![t] = FALSE]
    /\ UNCHANGED <<resVars, netVars>>
    /\ UNCHANGED <<_SERVER_AGE, _servers, _servers_time, now, cloud, fetches,
                   fetched, ret, calls, cold>>
    /\ UNCHANGED <<late, delVars>>

\* self._servers_lock.acquire(blocking): a blocking caller waits for the lock
ls_acquire(t) ==
    /\ pc[t] = "acquire"
    /\ \/ /\ ~_servers_lock
          /\ _servers_lock' = TRUE
          /\ pc' = [pc EXCEPT ![t] = "fetch"]
       \/ /\ _servers_lock
          /\ ~blocking[t]
          /\ _servers_lock' = _servers_lock
          /\ pc' = [pc EXCEPT ![t] = "ret"]
    /\ blocking' = [blocking EXCEPT ![t] = FALSE]
    /\ had' = [had EXCEPT ![t] = FALSE]
    /\ UNCHANGED <<resVars, netVars>>
    /\ UNCHANGED <<_SERVER_AGE, _servers, _servers_time, now, cloud, fetches,
                   fetched, ret, calls, cold>>
    /\ UNCHANGED <<late, delVars>>

\* self._list_servers(): one ServerList task, which answers or raises
ls_fetch(t) ==
    /\ pc[t] = "fetch"
    /\ fetches' = fetches + 1
    /\ \/ /\ fetched' = [fetched EXCEPT
                           ![t] = [fetch |-> fetches + 1, servers |-> cloud]]
          /\ pc' = [pc EXCEPT ![t] = "store"]
       \/ /\ fetched' = fetched
          /\ pc' = [pc EXCEPT ![t] = "unwind"]
    /\ UNCHANGED <<resVars, netVars>>
    /\ UNCHANGED <<_SERVER_AGE, _servers, _servers_time, _servers_lock, now,
                   cloud, blocking, ret, calls, cold>>
    /\ UNCHANGED <<had, late, delVars>>

\* self._servers = <the fetched list>
ls_store(t) ==
    /\ pc[t] = "store"
    /\ _servers' = fetched[t]
    /\ fetched' = [fetched EXCEPT ![t] = NoSnapshot]
    /\ pc' = [pc EXCEPT ![t] = "stamp"]
    /\ UNCHANGED <<resVars, netVars>>
    /\ UNCHANGED <<_SERVER_AGE, _servers_time, _servers_lock, now, cloud,
                   fetches, blocking, ret, calls, cold>>
    /\ UNCHANGED <<had, late, delVars>>

\* self._servers_time = time.time()
ls_stamp(t) ==
    /\ pc[t] = "stamp"
    /\ _servers_time' = now
    /\ pc' = [pc EXCEPT ![t] = "release"]
    /\ UNCHANGED <<resVars, netVars>>
    /\ UNCHANGED <<_SERVER_AGE, _servers, _servers_lock, now, cloud, fetches,
                   blocking, fetched, ret, calls, cold>>
    /\ UNCHANGED <<had, late, delVars>>

\* a slip: the lock is released after the refresh, not in a finally clause
Mutant_ls_release(t) ==
    /\ pc[t] \in {"release", "unwind"}
    /\ _servers_lock' = (pc[t] = "unwind")
    /\ pc' = [pc EXCEPT ![t] = IF pc[t] = "unwind" THEN "raised" ELSE "ret"]
    /\ ret' = [ret EXCEPT ![t] = IF pc[t] = "unwind" THEN Raised ELSE @]
    /\ UNCHANGED <<resVars, netVars>>
    /\ UNCHANGED <<_SERVER_AGE, _servers, _servers_time, now, cloud, fetches,
                   blocking, fetched, calls, cold>>
    /\ UNCHANGED <<had, late, delVars>>

\* finally: self._servers_lock.release()
ls_release(t) ==
    /\ pc[t] \in {"release", "unwind"}
    /\ _servers_lock' = FALSE
    /\ pc' = [pc EXCEPT ![t] = IF pc[t] = "unwind" THEN "raised" ELSE "ret"]
    /\ ret' = [ret EXCEPT ![t] = IF pc[t] = "unwind" THEN Raised ELSE @]
    /\ UNCHANGED <<resVars, netVars>>
    /\ UNCHANGED <<_SERVER_AGE, _servers, _servers_time, now, cloud, fetches,
                   blocking, fetched, calls, cold>>
    /\ UNCHANGED <<had, late, delVars>>

\* return self._servers
ls_return(t) ==
    /\ pc[t] = "ret"
    /\ ret' = [ret EXCEPT ![t] = Returned(_servers)]
    /\ pc' = [pc EXCEPT ![t] = "done"]
    /\ UNCHANGED <<resVars, netVars>>
    /\ UNCHANGED <<_SERVER_AGE, _servers, _servers_time, _servers_lock, now,
                   cloud, fetches, blocking, fetched, calls, cold>>
    /\ UNCHANGED <<had, late, delVars>>

list_servers(t) ==
    \/ ls_call(t)
    \/ ls_check(t)
    \/ ls_arg(t)
    \/ ls_acquire(t)
    \/ ls_fetch(t)
    \/ ls_store(t)
    \/ ls_stamp(t)
    \/ ls_release(t)
    \/ ls_return(t)

\* time passes: less than the default age limit, or as much
SrvTick ==
    /\ \E d \in {DEFAULT_SERVER_AGE - 1, DEFAULT_SERVER_AGE} :
          /\ now + d <= Epoch + MaxClock
          /\ now' = now + d
    /\ UNCHANGED <<resVars, netVars>>
    /\ UNCHANGED <<_SERVER_AGE, _servers, _servers_time, _servers_lock, cloud,
                   fetches, pc, blocking, fetched, ret, calls, cold>>
    /\ UNCHANGED <<had, late, delVars>>

\* the compute backend boots or removes a server
CloudChange ==
    /\ \E c \in SUBSET ServerIds :
          /\ c # cloud
          /\ cloud' = c
    /\ UNCHANGED <<resVars, netVars>>
    /\ UNCHANGED <<_SERVER_AGE, _servers, _servers_time, _servers_lock, now,
                   fetches, pc, blocking, fetched, ret, calls, cold>>
    /\ UNCHANGED <<had, late, delVars>>

\* -------------------------------------------------------------------
\* _delete_server(server, wait, timeout) for a server the caller looked up
\* before, delete_ips left False
Doomed == "s1"

\* try: submitTask(ServerDelete) ... if not wait: return True
\* nova removes the server at once or later
dl_call ==
    /\ dpc = "idle"
    /\ dret = "none"
    /\ \E wait \in BOOLEAN, fail \in BOOLEAN :
          IF fail
          THEN /\ dret' = "OpenStackCloudException"
               /\ UNCHANGED <<dpc, dwait, dfetch, cloud>>
          ELSE IF Doomed \notin cloud
          THEN /\ dret' = "False"
               /\ UNCHANGED <<dpc, dwait, dfetch, cloud>>
          ELSE /\ dwait' = wait
               /\ dfetch' = fetches
               /\ cloud' \in {cloud, cloud \ {Doomed}}
               /\ dpc' = IF wait THEN "poll" ELSE "idle"
               /\ dret' = IF wait THEN "none" ELSE "True"
    /\ UNCHANGED <<resVars, netVars>>
    /\ UNCHANGED <<_SERVER_AGE, _servers, _servers_time, _servers_lock, now,
                   fetches, pc, blocking, fetched, ret, calls, cold, had,
                   late, dtime>>

\* the round of the wait loop that ends it: ServerGet raises NotFound, or
\* another error; a round that finds the server sleeps and polls again
dl_poll ==
    /\ dpc = "poll"
    /\ \E fail \in BOOLEAN :
          IF fail
          THEN /\ dpc' = "idle"
               /\ dret' = "OpenStackCloudException"
          ELSE /\ Doomed \notin cloud
               /\ dpc' = "read"
               /\ dret' = dret
    /\ UNCHANGED <<resVars, netVars>>
    /\ UNCHANGED <<_SERVER_AGE, _servers, _servers_time, _servers_lock, now,
                   cloud, fetches, pc, blocking, fetched, ret, calls, cold,
                   had, late, dwait, dtime, dfetch>>

\* the server is still there when the time allowed has elapsed
dl_timeout ==
    /\ dpc = "poll"
    /\ Doomed \in cloud
    /\ dpc' = "idle"
    /\ dret' = "OpenStackCloudTimeout"
    /\ UNCHANGED <<resVars, netVars>>
    /\ UNCHANGED <<_SERVER_AGE, _servers, _servers_time, _servers_lock, now,
                   cloud, fetches, pc, blocking, fetched, ret, calls, cold,
                   had, late, dwait, dtime, dfetch>>

\* if self.has_service('volume'): ... self.list_volumes.invalidate(self)
\* and the right-hand side of the assignment to self._servers_time
dl_read ==
    /\ dpc = "read"
    /\ \E volume \in BOOLEAN :
          _cache' = IF volume THEN invalidate(World, "list_volumes").cache
                    ELSE _cache
    /\ dtime' = _servers_time - _SERVER_AGE
    /\ dpc' = "write"
    /\ UNCHANGED netVars
    /\ UNCHANGED <<kind, cacheOn, backend, op, phase, args, loop, tasks, log,
                   nops>>
    /\ UNCHANGED <<_SERVER_AGE, _servers, _servers_time, _servers_lock, now,
                   cloud, fetches, pc, blocking, fetched, ret, calls, cold,
                   had, late, dwait, dret, dfetch>>

\* self._servers_time = <the value computed>; return True
dl_write ==
    /\ dpc = "write"
    /\ _servers_time' = dtime
    /\ dtime' = 0
    /\ dpc' = "idle"
    /\ dret' = "True"
    /\ UNCHANGED <<resVars, netVars>>
    /\ UNCHANGED <<_SERVER_AGE, _servers, _servers_lock, now, cloud, fetches,
                   pc, blocking, fetched, ret, calls, cold, had, late, dwait,
                   dfetch>>

SrvNext ==
    \/ \E t \in Threads : list_servers(t)
    \/ SrvTick
    \/ CloudChange

\* a connection only list_servers is called on
ServersInit ==
    /\ SrvInit
    /\ ResIdle
    /\ NetIdle

SpecServers == ServersInit /\ [][SrvNext]_vars

\* a connection list_servers and _delete_server are called on
DelNext ==
    \/ \E t \in Threads : list_servers(t)
    \/ SrvTick
    \/ CloudChange
    \/ dl_call
    \/ dl_poll
    \/ dl_timeout
    \/ dl_read
    \/ dl_write

DeleteServerInit ==
    /\ SrvInit
    /\ ResIdle
    /\ NetIdle

SpecDeleteServer == DeleteServerInit /\ [][DelNext]_vars

\* ===================================================================
\* the caller of the resource verbs
\* ===================================================================
ResNext ==
    \/ ReadList
    \/ BackendStep
    \/ ResTick
    \/ wait_timeout
    \/ create_volume
    \/ create_volume_poll
    \/ delete_volume
    \/ delete_volume_poll
    \/ create_user
    \/ update_user
    \/ delete_user
    \/ create_project
    \/ update_project
    \/ delete_project
    \/ create_image_snapshot
    \/ update_image_properties
    \/ delete_image
    \/ delete_image_poll
    \/ delete_stack

SrvIdle ==
    /\ _SERVER_AGE = 0
    /\ _servers = NoSnapshot
    /\ _servers_time = 0
    /\ _servers_lock = FALSE
    /\ now = Epoch
    /\ cloud = {}
    /\ fetches = 0
    /\ pc = [t \in Threads |-> "idle"]
    /\ blocking = [t \in Threads |-> FALSE]
    /\ fetched = [t \in Threads |-> NoSnapshot]
    /\ ret = [t \in Threads |-> NoReturn]
    /\ calls = [t \in Threads |-> 0]
    /\ cold = [t \in Threads |-> FALSE]
    /\ had = [t \in Threads |-> FALSE]
    /\ late = [t \in Threads |-> FALSE]
    /\ DelIdle

\* ===================================================================
\* the caller of the floating-IP and security-group verbs
\* ===================================================================
FipAnswers ==
    {[Quiet EXCEPT !.nlist = nl, !.nop = no, !.vlist = vl, !.vop = vo,
                   !.extnet = e, !.avail = av, !.fip = f] :
       nl \in NeutronAnswers, no \in NeutronAnswers,
       vl \in {"ok", "Exception"}, vo \in NovaAnswers,
       e \in BOOLEAN, av \in BOOLEAN,
       f \in {None, "attached", "detached"}}

SecgroupAnswers ==
    {[Quiet EXCEPT !.nlist = nl, !.nop = no, !.vlist = vl, !.vop = vo,
                   !.found = fd] :
       nl \in NeutronAnswers, no \in NeutronAnswers,
       vl \in {"ok", "Exception"}, vo \in NovaAnswers, fd \in BOOLEAN}

\* the caller is in no call
Ready == request.verb = "none"

\* the caller calls verb, the backends answer as a says, the call ends as r
Call(verb, a, r) ==
    /\ request' = [verb |-> verb, a |-> a]
    /\ result' = r
    /\ UNCHANGED <<srvVars, resVars>>
    /\ UNCHANGED <<has_network, secgroup_source, fnVars, conVars>>

\* the caller has taken the outcome of its call
NetReturn ==
    /\ request.verb # "none"
    /\ request' = NoRequest
    /\ result' = NoResult
    /\ UNCHANGED <<srvVars, resVars>>
    /\ UNCHANGED <<has_network, secgroup_source, fnVars, conVars>>

CallListFloatingIps ==
    /\ Ready
    /\ \E a \in FipAnswers :
           Call("list_floating_ips", a, list_floating_ips(NoTrace, a))

CallAvailableFloatingIp ==
    /\ Ready
    /\ \E a \in FipAnswers :
           Call("available_floating_ip", a, available_floating_ip(NoTrace, a))

CallCreateFloatingIp ==
    /\ Ready
    /\ \E a \in FipAnswers :
           Call("create_floating_ip", a, create_floating_ip(NoTrace, a))

CallDeleteFloatingIp ==
    /\ Ready
    /\ \E a \in FipAnswers :
           Call("delete_floating_ip", a, delete_floating_ip(NoTrace, a))

CallAttachIpToServer ==
    /\ Ready
    /\ \E a \in FipAnswers, already \in BOOLEAN, wait \in BOOLEAN,
          skip_attach \in BOOLEAN, waited \in Waited :
           LET given == [a EXCEPT !.already = already, !.wait = wait,
                                  !.skip_attach = skip_attach,
                                  !.waited = IF wait /\ ~already THEN waited
                                             ELSE "seen"]
           IN  Call("_attach_ip_to_server", given,
                    _attach_ip_to_server(NoTrace, given))

\* the floating IP is not one the server already has
CallAddAutoIp ==
    /\ Ready
    /\ \E a \in FipAnswers, reuse \in BOOLEAN, wait \in BOOLEAN,
          port \in {"port", None, "ambiguous"}, waited \in Waited :
           LET given == [a EXCEPT !.reuse = reuse, !.server = TRUE,
                                  !.port = IF reuse THEN None ELSE port,
                                  !.wait = wait,
                                  !.waited = IF wait THEN waited ELSE "seen"]
           IN  Call("_add_auto_ip", given, _add_auto_ip(NoTrace, given))

CallDetachIpFromServer ==
    /\ Ready
    /\ \E a \in FipAnswers :
           Call("detach_ip_from_server", a, detach_ip_from_server(NoTrace, a))

CallListSecurityGroups ==
    /\ Ready
    /\ \E a \in SecgroupAnswers :
           Call("list_security_groups", a, list_security_groups(NoTrace, a))

CallListServerSecurityGroups ==
    /\ Ready
    /\ \E a \in SecgroupAnswers :
           Call("list_server_security_groups", a,
                list_server_security_groups(NoTrace, a))

CallCreateSecurityGroup ==
    /\ Ready
    /\ \E a \in SecgroupAnswers :
           Call("create_security_group", a, create_security_group(NoTrace, a))

CallUpdateSecurityGroup ==
    /\ Ready
    /\ \E a \in SecgroupAnswers :
           Call("update_security_group", a, update_security_group(NoTrace, a))

CallDeleteSecurityGroup ==
    /\ Ready
    /\ \E a \in SecgroupAnswers :
           Call("delete_security_group", a, delete_security_group(NoTrace, a))

CallCreateSecurityGroupRule ==
    /\ Ready
    /\ \E a \in SecgroupAnswers :
           Call("create_security_group_rule", a,
                create_security_group_rule(NoTrace, a))

CallDeleteSecurityGroupRule ==
    /\ Ready
    /\ \E a \in SecgroupAnswers :
           Call("delete_security_group_rule", a,
                delete_security_group_rule(NoTrace, a))

NetNext ==
    \/ CallListFloatingIps
    \/ CallAvailableFloatingIp
    \/ CallCreateFloatingIp
    \/ CallDeleteFloatingIp
    \/ CallAttachIpToServer
    \/ CallAddAutoIp
    \/ CallDetachIpFromServer
    \/ CallListSecurityGroups
    \/ CallListServerSecurityGroups
    \/ CallCreateSecurityGroup
    \/ CallUpdateSecurityGroup
    \/ CallDeleteSecurityGroup
    \/ CallCreateSecurityGroupRule
    \/ CallDeleteSecurityGroupRule
    \/ NetReturn

\* a connection no thread lists the servers of and no resource verb is
\* called on
NetworkInit ==
    /\ NetInit
    /\ SrvIdle
    /\ ResIdle

SpecNetwork == NetworkInit /\ [][NetNext]_vars

\* a connection no thread lists the servers of and no network verb is
\* called on
ResourcesInit ==
    /\ ResInit
    /\ SrvIdle
    /\ NetIdle

SpecResources == ResourcesInit /\ [][ResNext]_vars

\* -------------------------------------------------------------------
\* a connection one verb that can wait is called on
WaitsNext ==
    \/ BackendStep
    \/ Removed
    \/ ResTick
    \/ wait_timeout
    \/ create_volume
    \/ create_volume_poll
    \/ create_image
    \/ create_image_poll
    \/ create_stack
    \/ create_stack_poll
    \/ attach_volume
    \/ attach_volume_poll
    \/ detach_volume
    \/ detach_volume_poll
    \/ create_volume_snapshot
    \/ create_volume_snapshot_poll
    \/ create_server
    \/ create_server_poll
    \/ rebuild_server
    \/ rebuild_server_poll
    \/ delete_volume
    \/ delete_volume_poll

WaitingInit ==
    /\ WaitsInit
    /\ SrvIdle
    /\ NetIdle

SpecWaits == WaitingInit /\ [][WaitsNext]_vars

\* -------------------------------------------------------------------
\* C1: N callers invoke list_servers concurrently, no ServerList task has
\* been submitted when each of them enters and the age limit is positive:
\* when all of them have returned, exactly one ServerList task was
\* submitted in total and all of them returned the same snapshot.
C1_SingleFetchForConcurrentCallers ==
    (/\ _SERVER_AGE > 0
     /\ \A t \in Threads : calls[t] = 1 /\ cold[t] /\ pc[t] = "done")
    => (/\ fetches = 1
        /\ \A t, u \in Threads : ret[t] = ret[u])

TwoReads ==
    /\ Len(log) = 2
    /\ log[1].verb = "list"
    /\ log[2].verb = "list"

\* C2: list_volumes, list_images and list_stacks never store an entry for a
\* result that has a member in a non-terminal status: no entry holds such a
\* result, and the read that follows a read of such a result fetches the
\* list from the backend again.
C2_NoEntryForPendingResult ==
    /\ \A key \in CacheKeys :
          _cache[key].has => ~HasNonTerminal(kind, _cache[key].val)
    /\ (TwoReads /\ log[1].pending) => log[2].fetched

C2_Witness ==
    /\ cacheOn
    /\ kind \in {"volume", "image", "stack"}
    /\ TwoReads
    /\ log[1].pending
    /\ log[2].fetched

\* -------------------------------------------------------------------
\* the caller's last call
Last == log[Len(log)]

\* the verbs that invalidate a memoized list once their task is done
MutationVerbs == {"create_volume", "delete_volume", "create_user",
                  "update_user", "delete_user", "create_project",
                  "update_project", "create_image_snapshot",
                  "update_image_properties", "delete_image"}

\* of those, the verbs that read the list again after their task
RereadingVerbs == {"create_volume", "delete_volume", "create_image_snapshot",
                   "delete_image"}

\* the call returned and had submitted its mutation task
Mutated(outcome) ==
    /\ outcome.verb \in MutationVerbs
    /\ outcome.st = "returned"
    /\ outcome.out # "False"

ReadAfterMutation ==
    /\ Len(log) = 2
    /\ Mutated(log[1])
    /\ log[2].verb = "list"

\* C3 as stated: after a mutation verb that invalidates a cached list has
\* returned, the next read of that list by the same caller performs a
\* backend fetch
C3_NextReadFetches ==
    ReadAfterMutation => log[2].fetched

\* C3 as the code has it: after a mutation verb that invalidates a cached
\* list has returned, the next read of that list by the same caller never
\* returns a value computed before the mutation; it performs a backend fetch
\* unless the verb itself read the list again after its mutation
C3_NextReadNotOlderThanMutation ==
    ReadAfterMutation =>
        /\ ~log[2].stale
        /\ ~log[2].fetched => log[1].verb \in RereadingVerbs

C3_Witness ==
    /\ cacheOn
    /\ ReadAfterMutation
    /\ log[1].verb = "update_user"
    /\ log[2].fetched
    /\ ~log[2].stale

\* the call that just ended went through its wait loop and left it returning
WaitReturned(verb) ==
    /\ op = "idle"
    /\ Len(log) > 0
    /\ Last.verb = verb
    /\ Last.st = "returned"
    /\ args.wait

\* the backend list tasks among the tasks of the call
ListTasks == {i \in DOMAIN tasks : tasks[i] = ListTask(kind)}

\* C4: a wait loop whose polls see a pending state k times and then the
\* success state returns the success descriptor after exactly k+1 polls;
\* create_volume(wait=True) returns the volume with status available and has
\* sent one VolumeList per poll
C4_ReturnsAfterPendingPlusOnePolls ==
    /\ \A verb \in {"create_volume", "delete_volume", "delete_image"} :
          WaitReturned(verb) => loop.polls = loop.pending + 1
    /\ WaitReturned("create_volume") =>
          /\ Last.out = "available"
          /\ Cardinality(ListTasks) = loop.polls

C4_Witness ==
    /\ WaitReturned("create_volume")
    /\ Last.out = "available"
    /\ loop.pending = 1
    /\ loop.polls = 2
    /\ Cardinality(ListTasks) = 2

\* C5: a wait loop raises OpenStackCloudTimeout only once at least the
\* timeout given to the verb has elapsed since the loop started; with
\* timeout None the loop never ends by a timeout
C5_TimeoutOnlyOnceElapsed ==
    /\ (Len(log) > 0 /\ op = "idle" /\ Last.out = "OpenStackCloudTimeout") =>
          /\ args.timeout.limited
          /\ loop.elapsed >= args.timeout.secs
    /\ (op # "idle" /\ ~args.timeout.limited) => ~Expired(loop)

C5_Witness ==
    /\ Len(log) > 0
    /\ op = "idle"
    /\ Last.verb = "create_volume"
    /\ Last.out = "OpenStackCloudTimeout"
    /\ loop.polls > 0
    /\ loop.elapsed >= WaitTimeout

\* C8: a delete verb called twice on the same existing target, the backend
\* having removed the target after the first call, returns True and then
\* False, and the second call raises nothing
C8_DeleteTwiceTrueThenFalse ==
    (/\ Len(log) = 2
     /\ log[1].verb \in {"delete_volume", "delete_stack", "delete_user"}
     /\ log[2].verb = log[1].verb
     /\ log[1].pre # Absent
     /\ log[1].st = "returned"
     /\ log[2].pre = Absent)
    => (/\ log[1].out = "True"
        /\ log[2].st = "returned"
        /\ log[2].out = "False")

\* C9: a delete verb called on a target that is already absent returns False
\* and raises nothing
C9_DeleteAbsentReturnsFalse ==
    (/\ Len(log) > 0
     /\ op = "idle"
     /\ Last.verb \in {"delete_volume", "delete_user", "delete_image",
                       "delete_project"}
     /\ Last.pre = Absent)
    => (/\ Last.st = "returned"
        /\ Last.out = "False")

\* -------------------------------------------------------------------
\* the floating-IP verbs with a neutron and a nova branch
FipVerbs == {"list_floating_ips", "available_floating_ip",
             "create_floating_ip", "delete_floating_ip",
             "_attach_ip_to_server", "detach_ip_from_server"}

NovaTasks == {"NovaFloatingIPList", "FloatingIPPoolList",
              "NovaFloatingIPCreate", "NovaFloatingIPDelete",
              "NovaFloatingIPAttach", "NovaFloatingIPDetach"}

\* the nova task that performs each verb
NovaOperation(verb) ==
    CASE verb = "list_floating_ips" -> "NovaFloatingIPList"
      [] verb = "available_floating_ip" -> "NovaFloatingIPList"
      [] verb = "create_floating_ip" -> "NovaFloatingIPCreate"
      [] verb = "delete_floating_ip" -> "NovaFloatingIPDelete"
      [] verb = "_attach_ip_to_server" -> "NovaFloatingIPAttach"
      [] OTHER -> "NovaFloatingIPDetach"

Submitted(task) == \E i \in DOMAIN result.tasks : result.tasks[i] = task

\* neutron's endpoint is not there and nova works
NeutronGoneNovaWorks ==
    /\ has_network
    /\ request.verb \in FipVerbs
    /\ request.a.nlist = "OpenStackCloudURINotFound"
    /\ request.a.nop = "OpenStackCloudURINotFound"
    /\ request.a.vlist = "ok"
    /\ request.a.vop = "ok"
    /\ request.a.extnet
    /\ request.a.fip = "attached"
    /\ ~request.a.already

\* C6: a floating-IP verb whose neutron call raises
\* OpenStackCloudURINotFound while nova succeeds performs the operation on
\* nova, returns nova's result and logs exactly one fallback event
C6_FallbackPerformsOperationOnNova ==
    NeutronGoneNovaWorks =>
        /\ result.st = "returned"
        /\ result.by = "nova"
        /\ result.events = 1
        /\ Submitted(NovaOperation(request.verb))

\* C7: in a floating-IP verb a neutron error other than
\* OpenStackCloudURINotFound is followed by no nova task and no fallback,
\* and an error raised to the caller is that neutron error
C7_NoFallbackOnOtherErrors ==
    (has_network /\ request.verb \in FipVerbs) =>
        \A i \in DOMAIN result.errs :
            result.errs[i].exc # "OpenStackCloudURINotFound" =>
                /\ \A j \in DOMAIN result.tasks :
                      j > result.errs[i].at => result.tasks[j] \notin NovaTasks
                /\ result.st = "raised" =>
                      /\ result.out = result.errs[i].exc
                      /\ result.by = "neutron"

C7_Witness ==
    /\ has_network
    /\ request.verb = "delete_floating_ip"
    /\ request.a.nop = "OpenStackCloudResourceNotFound"
    /\ result.st = "returned"
    /\ result.out = "False"
    /\ result.tasks = <<"NeutronFloatingIPDelete">>

\* the security-group verbs
SecgroupVerbs == {"list_security_groups", "list_server_security_groups",
                  "create_security_group", "update_security_group",
                  "delete_security_group", "create_security_group_rule",
                  "delete_security_group_rule"}

NoSecgroupBackend ==
    /\ secgroup_source \notin {"neutron", "nova"}
    /\ request.verb \in SecgroupVerbs

\* C10 as stated: with no security-group backend every security-group verb
\* raises OpenStackCloudUnavailableFeature and submits no task
C10_EveryVerbRaisesUnavailable ==
    NoSecgroupBackend =>
        /\ result.tasks = <<>>
        /\ result.st = "raised"
        /\ result.out = "OpenStackCloudUnavailableFeature"

\* C10 as the code has it: with no security-group backend no
\* security-group verb submits a task; list_server_security_groups returns
\* the empty list and every other verb raises
\* OpenStackCloudUnavailableFeature
C10_NoTaskWithoutBackend ==
    NoSecgroupBackend =>
        /\ result.tasks = <<>>
        /\ IF request.verb = "list_server_security_groups"
           THEN result.st = "returned" /\ result.out = "[]"
           ELSE /\ result.st = "raised"
                /\ result.out = "OpenStackCloudUnavailableFeature"

C10_Witness ==
    /\ NoSecgroupBackend
    /\ request.verb = "delete_security_group"
    /\ result.st = "raised"
    /\ result.out = "OpenStackCloudUnavailableFeature"
    /\ result.tasks = <<>>


\* -------------------------------------------------------------------
\* the mutation's backend call raised: create_volume left no volume behind,
\* update_project had found its project, the other verbs raise
\* OpenStackCloudException for no other reason
BackendCallFailed(outcome) ==
    /\ outcome.st = "raised"
    /\ outcome.out = "OpenStackCloudException"
    /\ outcome.verb \in {"create_volume", "delete_volume", "create_project",
                         "update_project", "create_user"}
    /\ outcome.verb = "create_volume" =>
          outcome.pre = Absent /\ outcome.post = Absent
    /\ outcome.verb = "update_project" => outcome.pre # Absent

\* C11: after create_volume, delete_volume, create_project, update_project
\* or create_user raised because its backend call failed, the next read of
\* the list goes to the backend
C11_FailedMutationInvalidates ==
    (/\ Len(log) = 2
     /\ BackendCallFailed(log[1])
     /\ log[2].verb = "list")
    => log[2].fetched


\* -------------------------------------------------------------------
\* C12: a list_servers call that began after _delete_server(wait=True)
\* returned True does not return a snapshot fetched before the ServerDelete
\* task was submitted
C12_NoSnapshotFromBeforeDeletion ==
    \A t \in Threads :
        (pc[t] = "done" /\ late[t] /\ dwait) => ret[t].val.fetch > dfetch


\* C13: a list_servers caller that found the age limit exceeded and
\* evaluated its argument to acquire when a snapshot had been stored is not
\* made to wait for the lock another caller holds
C13_HeldLockReturnsSnapshot ==
    \A t \in Threads :
        (pc[t] = "acquire" /\ had[t] /\ _servers_lock) => ~blocking[t]


\* C14: with an age limit of zero no list_servers call returns without
\* refreshing: a caller comes to its return statement only from the release
\* of the lock it fetched under
C14_AgeZeroAlwaysFetches ==
    [][\A t \in Threads :
          (_SERVER_AGE = 0 /\ pc'[t] = "ret" /\ pc[t] # "ret")
          => pc[t] = "release"]_vars


\* C15: a list_servers caller that finds less than the age limit elapsed
\* since the last fetch was stamped goes straight to its return statement,
\* and from there returns the stored snapshot; neither step submits a
\* ServerList task
C15_FreshSnapshotNoTask ==
    [][\A t \in Threads :
          /\ (pc[t] = "check" /\ (now - _servers_time) < _SERVER_AGE
                /\ pc'[t] # pc[t])
             => (pc'[t] = "ret" /\ fetches' = fetches)
          /\ (pc[t] = "ret" /\ pc'[t] # pc[t])
             => (/\ pc'[t] = "done"
                 /\ ret'[t] = Returned(_servers)
                 /\ fetches' = fetches)]_vars

\* a caller's second call, some seconds after its first, returned the
\* snapshot its first call fetched
C15_Witness ==
    \E t \in Threads :
        /\ pc[t] = "done"
        /\ calls[t] = 2
        /\ \A u \in Threads \ {t} : calls[u] = 0
        /\ fetches = 1
        /\ _servers.fetch = 1
        /\ ret[t] = Returned(_servers)
        /\ now > _servers_time
        /\ (now - _servers_time) < _SERVER_AGE


\* -------------------------------------------------------------------
\* C16: one create_image call submits at most two import tasks: the
\* error-396 failure is answered by one resubmission only
C16_AtMostTwoImportTasks ==
    (op = "create_image" \/ (Len(log) > 0 /\ Last.verb = "create_image"))
    => Count(tasks, "ImageTaskCreate") <= 2

\* C17: a round of the import wait loop that sees the error-396 failure
\* submits exactly one ImageTaskCreate and leaves the image list without an
\* entry, and a round that asks for a task asks for the one created last,
\* never for one seen to fail
C17_ResubmitsAndPollsTheNewTask ==
    [][(op = "create_image" /\ loop'.polls = loop.polls + 1) =>
          /\ loop'.failed # loop.failed =>
                /\ Count(tasks', "ImageTaskCreate") =
                      Count(tasks, "ImageTaskCreate") + 1
                /\ ~_cache'["list_images"].has
          /\ Count(tasks', "ImageTaskGet") # Count(tasks, "ImageTaskGet") =>
                /\ loop'.got = Count(tasks, "ImageTaskCreate")
                /\ loop'.got \notin loop.failed]_vars

\* the import failed with error 396, was submitted again, and the round
\* after that asked for the second task
C17_Witness ==
    /\ op = "create_image"
    /\ loop.failed = {1}
    /\ loop.got = 2
    /\ loop.polls = 2
    /\ Count(tasks, "ImageTaskCreate") = 2
    /\ Count(tasks, "ImageTaskGet") = 2

\* -------------------------------------------------------------------
\* the create verbs that can wait, and the state each of them waits for
CreateVerbs ==
    {"create_volume", "create_volume_snapshot", "create_server",
     "rebuild_server", "create_stack", "create_image"}

Success(verb) ==
    CASE verb \in {"create_volume", "create_volume_snapshot"} ->
             {"available"}
      [] verb = "create_server" -> {"ACTIVE"}
      [] verb = "rebuild_server" -> {"ACTIVE", "ACTIVE, no addresses"}
      [] verb = "create_stack" -> {"CREATE_COMPLETE"}
      [] verb = "create_image" -> {"success"}
      [] OTHER -> {}

\* C18: a create verb called with wait=True that returned normally made at
\* least one poll, and the poll it returned from observed the resource in
\* the verb's success state: volume or snapshot available, server ACTIVE,
\* stack complete, import task success
C18_ReturnsOnlyAfterSuccessObserved ==
    \A verb \in CreateVerbs :
        WaitReturned(verb) =>
            /\ loop.polls >= 1
            /\ loop.saw \in Success(verb)

\* a waiting create_volume_snapshot saw the snapshot still being created,
\* polled again and returned once it saw it available
C18_Witness ==
    /\ WaitReturned("create_volume_snapshot")
    /\ loop.polls >= 2
    /\ loop.pending >= 1
    /\ loop.saw = "available"
    /\ Last.out = "available"

\* -------------------------------------------------------------------
\* the verbs whose wait loop reads the status of what it waits for, and
\* the observations that show the operation failed
StatusLoops ==
    {"create_volume", "attach_volume", "detach_volume",
     "create_volume_snapshot", "create_server", "rebuild_server",
     "create_image"}

Failure(verb) ==
    CASE verb \in {"create_volume", "attach_volume", "detach_volume"} ->
             {"error", "error, attached"}
      [] verb = "create_volume_snapshot" -> {"error"}
      [] verb \in {"create_server", "rebuild_server"} -> {"ERROR"}
      [] verb = "create_image" -> {"failure"}
      [] OTHER -> {}

\* C19: a round of a wait loop that observes the resource in its failure
\* state (volume or snapshot status error, server status ERROR, import task
\* failure without the error-396 message) ends the call at that round by
\* raising OpenStackCloudException
C19_FailureObservedRaises ==
    [][(/\ op \in StatusLoops
        /\ loop'.polls = loop.polls + 1
        /\ loop'.saw \in Failure(op))
       => /\ op' = "idle"
          /\ log' # log
          /\ log'[Len(log')].st = "raised"
          /\ log'[Len(log')].out = "OpenStackCloudException"]_vars

\* -------------------------------------------------------------------
\* the wait loops that are not delete workflows
PendingLoops ==
    {"create_volume", "attach_volume", "detach_volume", "create_server"}

\* C20: in the wait loops of create_volume, attach_volume, detach_volume
\* and create_server, a round that finds the resource absent leaves the
\* call in its loop, to poll again after the sleep, and ends it with no
\* error
C20_AbsentIsPending ==
    [][(/\ op \in PendingLoops
        /\ loop'.polls = loop.polls + 1
        /\ loop'.saw = Absent)
       => /\ op' = op
          /\ phase' = "sleep"
          /\ log' = log]_vars

\* -------------------------------------------------------------------
\* the verbs whose wait can run out of time, the tasks that only read, and
\* the tasks a step submitted
TimedVerbs ==
    {"create_server", "create_volume", "attach_volume", "detach_volume",
     "delete_volume", "rebuild_server"}

ReadTasks == {"VolumeList", "ServerList", "ServerGet"}

\* C21: the step in which a waiting verb raises OpenStackCloudTimeout
\* leaves the backend resource as it was, and whatever the step submitted
\* ends with the read of a poll; a round of the loop after which the verb
\* goes on waiting submits nothing but reads and leaves the backend as it
\* was, so no mutating task lies between the last poll and the timeout
C21_TimeoutSubmitsNoMutation ==
    [][LET new == SubSeq(tasks', Len(tasks) + 1, Len(tasks'))
       IN  /\ (/\ op \in TimedVerbs
               /\ log' # log
               /\ log'[Len(log')].out = "OpenStackCloudTimeout")
              => /\ backend' = backend
                 /\ new = <<>> \/ new[Len(new)] \in ReadTasks
           /\ (/\ op \in TimedVerbs
               /\ op' = op
               /\ loop'.polls = loop.polls + 1)
              => /\ backend' = backend
                 /\ \A i \in DOMAIN new : new[i] \in ReadTasks]_vars

\* a waiting verb polled at least once, went on waiting and then raised
\* the timeout
C21_Witness ==
    /\ op = "idle"
    /\ Len(log) > 0
    /\ Last.verb \in TimedVerbs
    /\ Last.out = "OpenStackCloudTimeout"
    /\ loop.polls >= 1
    /\ loop.pending >= 1
    /\ backend[Target] # Absent

\* -------------------------------------------------------------------
\* C22: _attach_ip_to_server called for a server that already carries the
\* floating address returns the server and submits no task, whatever wait
\* and skip_attach are and whichever backend serves floating addresses
C22_AlreadyAttachedSubmitsNothing ==
    (request.verb = "_attach_ip_to_server" /\ request.a.already) =>
        /\ result.st = "returned"
        /\ result.out = "server"
        /\ result.tasks = <<>>
        /\ result.events = 0

\* the call asked to wait and not to skip the attach, on a cloud with
\* neutron, and the server had the address already
C22_Witness ==
    /\ request.verb = "_attach_ip_to_server"
    /\ request.a.already
    /\ request.a.wait
    /\ ~request.a.skip_attach
    /\ has_network
    /\ result.st = "returned"
    /\ result.tasks = <<>>

\* -------------------------------------------------------------------
\* no list_servers call is under way
ServersQuiet == \A t \in Threads : pc[t] \in {"idle", "done", "raised"}

\* the memoized lists with caching disabled: nothing is stored and the
\* read of a list that just ended went to the backend
UncachedReads ==
    ~cacheOn =>
        /\ \A key \in CacheKeys : ~_cache[key].has
        /\ (Len(log) > 0 /\ Last.verb = "list") => Last.fetched

\* C23: with caching disabled at configuration time (cache class
\* dogpile.cache.null, which sets the server age limit to zero) every call
\* of a cacheable read submits its backend fetch: the memoized lists store
\* nothing, and once no list_servers call is under way as many ServerList
\* tasks were submitted as list_servers calls were made
C23_DisabledCacheAlwaysFetches ==
    /\ UncachedReads
    /\ (_SERVER_AGE = 0 /\ ServersQuiet) => fetches = Made(NumThreads)

\* ===================================================================
\* Functions that touch no backend
\* ===================================================================
\* sep.join(parts)
RECURSIVE Join(_, _)
Join(parts, sep) ==
    IF Len(parts) = 0 THEN ""
    ELSE IF Len(parts) = 1 THEN parts[1]
    ELSE parts[1] \o sep \o Join(Tail(parts), sep)

\* the keyword names of the calls, in the order sorted() puts them
KeywordOrder == <<"cache", "detailed", "name">>

\* the values a keyword is given, as '%s' prints them
KeywordValues(k) == IF k = "cache" THEN {"True", "False"}
                    ELSE IF k = "detailed" THEN {"True"} ELSE {"x"}

\* **kwargs: the keywords of a call in the order they were supplied, no
\* keyword twice
Kwargs ==
    {kw \in UNION {[1..n -> {[k |-> KeywordOrder[i], v |-> v] :
                                i \in 1..3, v \in {"True", "False", "x"}}] :
                      n \in 0..3} :
        /\ \A i \in DOMAIN kw : kw[i].v \in KeywordValues(kw[i].k)
        /\ \A i, j \in DOMAIN kw : i # j => kw[i].k # kw[j].k}

\* kwargs[k]
ValueOf(kwargs, k) ==
    kwargs[CHOOSE i \in DOMAIN kwargs : kwargs[i].k = k].v

\* sorted(kwargs.keys())
sorted_keys(kwargs) ==
    SelectSeq(KeywordOrder,
              LAMBDA k : \E i \in DOMAIN kwargs : kwargs[i].k = k)

\* a slip: the keywords are taken in the order they were supplied
Mutant_generate_key(name_key, fname, positional, kwargs) ==
    LET kw_keys == [i \in DOMAIN kwargs |-> kwargs[i].k]
        kept == SelectSeq(kw_keys, LAMBDA k : k # "cache")
        kwargs_key == Join([i \in 1..Len(kept) |->
                              kept[i] \o ":" \o ValueOf(kwargs, kept[i])],
                           ",")
    IN  Join(<<name_key, fname, Join(positional, ","), kwargs_key>>, "_")

\* generate_key(*args, **kwargs), the closure _make_cache_key returns
generate_key(name_key, fname, positional, kwargs) ==
    LET kw_keys == sorted_keys(kwargs)
        kept == SelectSeq(kw_keys, LAMBDA k : k # "cache")
        kwargs_key == Join([i \in 1..Len(kept) |->
                              kept[i] \o ":" \o ValueOf(kwargs, kept[i])],
                           ",")
    IN  Join(<<name_key, fname, Join(positional, ","), kwargs_key>>, "_")

\* self._make_cache_key(namespace, fn)(*args, **kwargs); fname is
\* fn.__name__
_make_cache_key(self, namespace, fname, positional, kwargs) ==
    LET name_key == IF namespace = None THEN self.name
                    ELSE self.name \o ":" \o namespace
    IN  generate_key(name_key, fname, positional, kwargs)

\* the connections: cloud_config.name and cloud_config.region_name
Connections == [name : {"prod", "dev"}, region_name : {"east", "west"}]

Operations == {"list_volumes", "list_images"}

\* two calls, each on its connection, with the same positional arguments
CallGenerateKey ==
    /\ applied = NoCall
    /\ \E c1 \in Connections, c2 \in Connections, namespace \in {None, "v2"},
          f1 \in Operations, f2 \in Operations, positional \in {<<>>, <<"x">>},
          kw1 \in Kwargs, kw2 \in Kwargs :
          /\ applied' = [fn |-> "generate_key",
                         self |-> <<c1, c2>>, fname |-> <<f1, f2>>,
                         args |-> positional, kwargs |-> <<kw1, kw2>>]
          /\ value' = <<_make_cache_key(c1, namespace, f1, positional, kw1),
                        _make_cache_key(c2, namespace, f2, positional, kw2)>>
    /\ UNCHANGED <<srvVars, resVars>>
    /\ UNCHANGED <<has_network, secgroup_source, request, result, conVars>>

\* -------------------------------------------------------------------
\* range_search(data, filters)
\* the members of data a filter matches, in the order of data; matching is
\* given by the positions matched
Pick(data, matched) ==
    LET at == SelectSeq([i \in 1..Len(data) |-> i],
                        LAMBDA i : i \in matched)
    IN  [j \in 1..Len(at) |-> data[at[j]]]

\* [r for r in results for f in filtered if r == f]
RECURSIVE Intersection(_, _)
Intersection(results, filtered) ==
    IF Len(results) = 0 THEN <<>>
    ELSE [i \in 1..Len(SelectSeq(filtered,
                                  LAMBDA f : f = results[1])) |-> results[1]]
         \o Intersection(Tail(results), filtered)

\* the loop over filters.items(), from the filtered list so far
RECURSIVE range_search_loop(_, _)
range_search_loop(filtered, per_filter) ==
    IF Len(per_filter) = 0 THEN filtered
    ELSE range_search_loop(IF Len(filtered) = 0 THEN per_filter[1]
                           ELSE Intersection(per_filter[1], filtered),
                           Tail(per_filter))

\* matched[i] are the positions of data the i-th filter matches
range_search(data, matched) ==
    range_search_loop(<<>>, [i \in 1..Len(matched) |->
                               Pick(data, matched[i])])

\* the data sets: lists of dictionaries, no dictionary twice
DataSets ==
    {d \in UNION {[1..n -> {"d1", "d2", "d3"}] : n \in 0..MaxData} :
        \A i, j \in DOMAIN d : i # j => d[i] # d[j]}

CallRangeSearch ==
    /\ applied = NoCall
    /\ \E data \in DataSets, n \in 1..MaxFilters :
          \E matched \in [1..n -> SUBSET (1..Len(data))] :
              /\ applied' = [fn |-> "range_search", data |-> data,
                             matched |-> matched]
              /\ value' = range_search(data, matched)
    /\ UNCHANGED <<srvVars, resVars>>
    /\ UNCHANGED <<has_network, secgroup_source, request, result, conVars>>

FnReturn ==
    /\ applied # NoCall
    /\ applied' = NoCall
    /\ value' = None
    /\ UNCHANGED <<srvVars, resVars>>
    /\ UNCHANGED <<has_network, secgroup_source, request, result, conVars>>

FnNext ==
    \/ CallGenerateKey
    \/ CallRangeSearch
    \/ FnReturn

FunctionsInit == SrvIdle /\ ResIdle /\ NetIdle

SpecFunctions == FunctionsInit /\ [][FnNext]_vars

\* -------------------------------------------------------------------
\* the keywords of a call apart from the reserved one, whatever their order
Meaning(kwargs) ==
    {<<kwargs[i].k, kwargs[i].v>> : i \in {j \in DOMAIN kwargs :
                                             kwargs[j].k # "cache"}}

\* two calls of one operation on one connection
SameOperation ==
    /\ applied.fn = "generate_key"
    /\ applied.self[1] = applied.self[2]
    /\ applied.fname[1] = applied.fname[2]

\* C24: two calls of the same operation on the same connection whose
\* arguments differ only in the order the keywords were supplied in, or in
\* the presence or value of the cache keyword, get the same cache key
C24_KeyIgnoresOrderAndCacheKeyword ==
    (SameOperation /\ Meaning(applied.kwargs[1]) = Meaning(applied.kwargs[2]))
    => value[1] = value[2]

\* one call gave name then detailed and cache=False, the other detailed
\* then name and no cache keyword; both got the same key
C24_Witness ==
    /\ SameOperation
    /\ applied.kwargs[1] = <<[k |-> "name", v |-> "x"],
                             [k |-> "cache", v |-> "False"],
                             [k |-> "detailed", v |-> "True"]>>
    /\ applied.kwargs[2] = <<[k |-> "detailed", v |-> "True"],
                             [k |-> "name", v |-> "x"]>>
    /\ applied.args = <<"x">>
    /\ value[1] = value[2]
    /\ value[1] \in {"prod_list_volumes_x_detailed:True,name:x",
                      "prod:v2_list_volumes_x_detailed:True,name:x"}

\* -------------------------------------------------------------------
\* C25: for the same operation and the same arguments the keys of two
\* connections that differ in cloud name or in region are different, and
\* on one connection the keys of two different operations are different
C25_KeyNamesConnectionAndOperation ==
    applied.fn = "generate_key" =>
        /\ (/\ applied.self[1] # applied.self[2]
            /\ applied.fname[1] = applied.fname[2]
            /\ applied.kwargs[1] = applied.kwargs[2])
           => value[1] # value[2]
        /\ (/\ applied.self[1] = applied.self[2]
            /\ applied.fname[1] # applied.fname[2])
           => value[1] # value[2]

\* -------------------------------------------------------------------
\* C26: a step of a verb (it begins a call, ends one, or is a round of its
\* wait loop) leaves the cached entries of every kind but the verb's own
\* as they were, and the server snapshot and its timestamp too
C26_OtherKindsKeepTheirEntries ==
    [][(nops' # nops \/ op' # op \/ loop'.polls # loop.polls) =>
          /\ \A key \in CacheKeys \ {KeyOf(kind)} : _cache'[key] = _cache[key]
          /\ _servers' = _servers
          /\ _servers_time' = _servers_time]_vars

\* -------------------------------------------------------------------
\* C27: no call ends by raising the backend client's own exception
\* ("Exception" in the model): a failure of a backend task reaches the
\* caller as OpenStackCloudException or one of its subclasses
C27_BackendFailuresAreWrapped ==
    \A i \in DOMAIN log : log[i].st = "raised" => log[i].out # "Exception"

\* -------------------------------------------------------------------
\* C28: a round of a wait loop whose backend read raised ends the call
\* with that error raised to the caller; the loop does not go on
C28_PollErrorsReachTheCaller ==
    [][(/\ op # "idle"
        /\ loop'.polls = loop.polls + 1
        /\ loop'.saw = "exception")
       => /\ op' = "idle"
          /\ log' # log
          /\ log'[Len(log')].st = "raised"]_vars

\* -------------------------------------------------------------------
\* the positions of data that every filter matches
MatchedByAll(data, matched) ==
    {i \in 1..Len(data) : \A f \in DOMAIN matched : i \in matched[f]}

\* C29: range_search returns exactly the members of the data set that
\* every filter matches, whatever each filter matches, a filter that
\* matches nothing included
C29_RangeSearchIsIntersection ==
    applied.fn = "range_search" =>
        value = Pick(applied.data, MatchedByAll(applied.data, applied.matched))

\* -------------------------------------------------------------------
\* the call that just ended raised OpenStackCloudException and submitted
\* no task
RefusedWithoutTask ==
    /\ Last.st = "raised"
    /\ Last.out = "OpenStackCloudException"
    /\ tasks = <<>>

\* C30: attach_volume for a volume that is already attached to the server
\* or whose status is not available, and detach_volume for a volume that
\* is not attached to the server, raise OpenStackCloudException and submit
\* no backend task
C30_AttachDetachPreconditions ==
    (op = "idle" /\ Len(log) > 0) =>
        /\ (/\ Last.verb = "attach_volume"
            /\ Attached(Last.pre) \/ VolumeStatus(Last.pre) # "available")
           => RefusedWithoutTask
        /\ (Last.verb = "detach_volume" /\ ~Attached(Last.pre))
           => RefusedWithoutTask

\* attach_volume was called for a volume still being created and refused
C30_Witness ==
    /\ op = "idle"
    /\ Len(log) > 0
    /\ Last.verb = "attach_volume"
    /\ Last.pre = "creating"
    /\ RefusedWithoutTask
    /\ backend[Target] = "creating"


\* -------------------------------------------------------------------
\* no caller is between the age check and the release of the refresh lock
NoRefreshInFlight ==
    /\ ~_servers_lock
    /\ \A u \in Threads : pc[u] \in {"idle", "check", "ret", "done", "raised"}

\* C31: the first list_servers call that begins after _delete_server returned
\* True, made while no refresh is in flight, goes on to fetch the server list
\* instead of returning the snapshot stored before the deletion, with
\* wait=True and with wait=False
C31_NextListAfterDeleteFetches ==
    [][\A t \in Threads :
          (/\ pc[t] = "check"
           /\ pc'[t] # "check"
           /\ late[t]
           /\ NoRefreshInFlight
           /\ _servers.fetch > 0
           /\ _servers.fetch <= dfetch)
          => pc'[t] = "arg"]_vars


\* -------------------------------------------------------------------
\* a round of the wait loop of attach_volume or detach_volume whose
\* get_volume call returned
AttachDetachPoll ==
    /\ op \in {"attach_volume", "detach_volume"}
    /\ loop'.polls = loop.polls + 1
    /\ loop'.saw # "exception"

\* C32: with caching enabled, every poll of attach_volume(wait=True) and of
\* detach_volume(wait=True) looks at a volume list fetched after the
\* VolumeAttach or VolumeDetach task was submitted, never at one cached
\* before it
C32_PollsReadAfterTheTask ==
    [][(cacheOn /\ AttachDetachPoll) => ~list_volumes(World).stale]_vars


\* -------------------------------------------------------------------
\* create_server(wait=True) has ended
CreateServerWaited ==
    /\ op = "idle"
    /\ Len(log) > 0
    /\ Last.verb = "create_server"
    /\ args.wait

\* C33: in create_server(wait=True) a poll that observes the server ACTIVE
\* with no addresses submits ServerDelete for it and raises
\* OpenStackCloudException, and the call returns a server only when a poll
\* observed it ACTIVE with addresses
C33_ActiveWithoutAddressesIsDeleted ==
    CreateServerWaited =>
        /\ loop.saw = "ACTIVE, no addresses" =>
              /\ Last.st = "raised"
              /\ Last.out = "OpenStackCloudException"
              /\ Count(tasks, "ServerDelete") = 1
        /\ Last.st = "returned" => loop.saw = "ACTIVE"

C33_Witness ==
    /\ CreateServerWaited
    /\ loop.saw = "ACTIVE, no addresses"
    /\ Last.st = "raised"
    /\ Count(tasks, "ServerDelete") = 1
    /\ backend[Target] = Absent


\* -------------------------------------------------------------------
\* delete_volume has ended
DeleteVolumeEnded ==
    /\ op = "idle"
    /\ Len(log) > 0
    /\ Last.verb = "delete_volume"

\* C34: delete_volume returns False and submits no VolumeDelete when the
\* volume list it reads after the invalidation does not hold the volume,
\* and delete_volume(wait=True) returns True only after a poll that read a
\* list fetched after VolumeDelete was submitted found the volume absent
C34_DeleteVolumeOutcomes ==
    DeleteVolumeEnded =>
        /\ Last.pre = Absent =>
              /\ Last.st = "returned"
              /\ Last.out = "False"
              /\ Last.fetched
              /\ Count(tasks, "VolumeDelete") = 0
        /\ (args.wait /\ Last.st = "returned") =>
              /\ Last.out = "True"
              /\ Count(tasks, "VolumeDelete") = 1
              /\ loop.polls >= 1
              /\ loop.saw = Absent
              /\ ~Last.stale

C34_Witness ==
    /\ DeleteVolumeEnded
    /\ args.wait
    /\ Last.st = "returned"
    /\ Last.out = "True"
    /\ loop.pending >= 1
    /\ loop.saw = Absent
    /\ cacheOn


\* ===================================================================
\* The networks a connection finds once
\* ===================================================================
\* the router:external attribute of a network
RouterExternal(n) == n = "n1"

\* a call's outcome and the tasks it submitted
Returns(out, submitted) ==
    [st |-> "returned", out |-> out, tasks |-> submitted]

Raises(exc, submitted) ==
    [st |-> "raised", out |-> exc, tasks |-> submitted]

\* a slip: the stamp is not looked at
Mutant_get_network(name_or_id, use_network, network_cache, network_stamp, external, answer) ==
    IF ~use_network THEN Returns({}, <<>>)
    ELSE IF network_cache # {} THEN Returns(network_cache, <<>>)
    ELSE IF ~has_network THEN Returns({}, <<>>)
    ELSE IF name_or_id # None
    THEN IF answer = "raise" \/ name_or_id \notin neutron
         THEN Raises("OpenStackCloudException", <<"NetworkList">>)
         ELSE Returns({}, <<"NetworkList">>)
    ELSE IF answer = "raise" THEN Returns({}, <<"NetworkList">>)
    ELSE Returns({n \in neutron : RouterExternal(n) = external},
                 <<"NetworkList">>)

\* _get_network(name_or_id, use_network_func, network_cache, network_stamp,
\* filters); external is the router:external the filters ask for, answer
\* tells whether the NetworkList task answers or raises
_get_network(name_or_id, use_network, network_cache, network_stamp, external, answer) ==
    IF ~use_network THEN Returns({}, <<>>)
    ELSE IF network_cache # {} THEN Returns(network_cache, <<>>)
    ELSE IF network_stamp THEN Returns({}, <<>>)
    ELSE IF ~has_network THEN Returns({}, <<>>)
    ELSE IF name_or_id # None
    THEN IF answer = "raise" \/ name_or_id \notin neutron
         THEN Raises("OpenStackCloudException", <<"NetworkList">>)
         ELSE Returns({}, <<"NetworkList">>)
    ELSE IF answer = "raise" THEN Returns({}, <<"NetworkList">>)
    ELSE Returns({n \in neutron : RouterExternal(n) = external},
                 <<"NetworkList">>)

\* the first lookup of a side that completed, remembered
Remember(lookup, out) ==
    IF lookup.done THEN lookup ELSE [done |-> TRUE, out |-> out]

get_external_networks ==
    /\ \E answer \in {"ok", "raise"} :
          LET found == _get_network(cloud_config.external_network,
                                    cloud_config.use_external_network,
                                    _external_networks,
                                    _external_network_stamp, TRUE, answer)
          IN  /\ called' = [verb |-> "get_external_networks"]
              /\ answered' = found
              /\ IF found.st = "raised"
                 THEN UNCHANGED <<_external_networks,
                                  _external_network_stamp, first>>
                 ELSE /\ _external_networks' = found.out
                      /\ _external_network_stamp' = TRUE
                      /\ first' = [first EXCEPT
                                     !.external = Remember(@, found.out)]
    /\ UNCHANGED <<srvVars, resVars>>
    /\ UNCHANGED <<has_network, secgroup_source, request, result, fnVars>>
    /\ UNCHANGED <<cloud_config, _internal_networks, _internal_network_stamp,
                   neutron, _container_cache, swift>>

get_internal_networks ==
    /\ \E answer \in {"ok", "raise"} :
          LET found == _get_network(cloud_config.internal_network,
                                    cloud_config.use_internal_network,
                                    _internal_networks,
                                    _internal_network_stamp, FALSE, answer)
          IN  /\ called' = [verb |-> "get_internal_networks"]
              /\ answered' = found
              /\ IF found.st = "raised"
                 THEN UNCHANGED <<_internal_networks,
                                  _internal_network_stamp, first>>
                 ELSE /\ _internal_networks' = found.out
                      /\ _internal_network_stamp' = TRUE
                      /\ first' = [first EXCEPT
                                     !.internal = Remember(@, found.out)]
    /\ UNCHANGED <<srvVars, resVars>>
    /\ UNCHANGED <<has_network, secgroup_source, request, result, fnVars>>
    /\ UNCHANGED <<cloud_config, _external_networks, _external_network_stamp,
                   neutron, _container_cache, swift>>

\* networks are created and deleted on the cloud
NeutronChange ==
    /\ \E networks \in SUBSET Networks :
          /\ networks # neutron
          /\ neutron' = networks
    /\ UNCHANGED <<srvVars, resVars>>
    /\ UNCHANGED <<has_network, secgroup_source, request, result, fnVars>>
    /\ UNCHANGED <<cloud_config, _external_networks, _external_network_stamp,
                   _internal_networks, _internal_network_stamp,
                   _container_cache, swift, called, answered, first>>

\* a connection as constructed, on a cloud with its networks, with the
\* network settings of its configuration
FindingInit ==
    /\ SrvIdle
    /\ ResIdle
    /\ has_network \in BOOLEAN
    /\ secgroup_source = None
    /\ request = NoRequest
    /\ result = NoResult
    /\ FnIdle
    /\ cloud_config \in [external_network : {None} \cup Networks,
                         use_external_network : BOOLEAN,
                         internal_network : {None} \cup Networks,
                         use_internal_network : BOOLEAN]
    /\ _external_networks = {}
    /\ _external_network_stamp = FALSE
    /\ _internal_networks = {}
    /\ _internal_network_stamp = FALSE
    /\ neutron \in SUBSET Networks
    /\ _container_cache = [name \in Containers |-> Missing]
    /\ swift = {}
    /\ called = NotCalled
    /\ answered = NoAnswer
    /\ first = [external |-> NoneYet, internal |-> NoneYet]

FindingNext ==
    \/ get_external_networks
    \/ get_internal_networks
    \/ NeutronChange

SpecFinding == FindingInit /\ [][FindingNext]_vars

\* C35: once a get_external_networks call has completed without raising,
\* every later get_external_networks call returns what that first call
\* returned and submits no backend task; the same for
\* get_internal_networks
C35_NetworksAreFoundOnce ==
    [][/\ (get_external_networks /\ first.external.done) =>
              /\ answered'.st = "returned"
              /\ answered'.out = first.external.out
              /\ answered'.tasks = <<>>
       /\ (get_internal_networks /\ first.internal.done) =>
              /\ answered'.st = "returned"
              /\ answered'.out = first.internal.out
              /\ answered'.tasks = <<>>]_vars

C35_Witness ==
    /\ first.external.done
    /\ first.external.out = {"n1"}
    /\ neutron = {}
    /\ called = [verb |-> "get_external_networks"]
    /\ answered = Returns({"n1"}, <<>>)
    /\ first.internal.done
    /\ first.internal.out = {}
    /\ has_network


\* ===================================================================
\* The containers a connection has fetched
\* ===================================================================
\* what a container call leaves: its outcome, self._container_cache and the
\* object store
Left(outcome, cache, store) ==
    [st |-> outcome.st, out |-> outcome.out, tasks |-> outcome.tasks,
     cache |-> cache, store |-> store]

\* the tasks submitted before go first
After(submitted, left) == [left EXCEPT !.tasks = submitted \o @]

\* get_container(name, skip_cache); answer: ContainerGet answers, with the
\* headers or with a 404, or raises another ClientException
get_container(cache, store, name, skip_cache, answer) ==
    IF skip_cache \/ cache[name] = Missing
    THEN IF answer = "fail"
         THEN Left(Raises("OpenStackCloudException", <<"ContainerGet">>),
                   cache, store)
         ELSE IF name \notin store
         THEN Left(Returns(None, <<"ContainerGet">>), cache, store)
         ELSE Left(Returns("headers", <<"ContainerGet">>),
                   [cache EXCEPT ![name] = "headers"], store)
    ELSE Left(Returns(cache[name], <<>>), cache, store)

\* create_container(name, public); a tells how each task answers
create_container(cache, store, name, public, a) ==
    LET container == get_container(cache, store, name, FALSE, a.get)
        create == container.tasks \o <<"ContainerCreate">>
        update == IF public THEN create \o <<"ContainerUpdate">> ELSE create
        made == store \cup {name}
    IN  IF container.st = "raised" \/ container.out # None
        THEN container
        ELSE IF a.create = "fail"
        THEN Left(Raises("OpenStackCloudException", create),
                  container.cache, store)
        ELSE IF public /\ a.update = "fail"
        THEN Left(Raises("OpenStackCloudException", update),
                  container.cache, made)
        ELSE After(update, get_container(container.cache, made, name, TRUE,
                                         a.again))

\* delete_container(name): a 404 is taken for done
delete_container(cache, store, name, answer) ==
    IF answer = "fail"
    THEN Left(Raises("OpenStackCloudException", <<"ContainerDelete">>),
              cache, store)
    ELSE Left(Returns(None, <<"ContainerDelete">>), cache, store \ {name})

\* the call made and what it left
ContainerCall(call, left) ==
    /\ called' = call
    /\ answered' = [st |-> left.st, out |-> left.out, tasks |-> left.tasks]
    /\ _container_cache' = left.cache
    /\ swift' = left.store

\* the rest of the connection is left alone
ContainersOnly ==
    /\ UNCHANGED <<srvVars, resVars>>
    /\ UNCHANGED <<has_network, secgroup_source, request, result, fnVars>>
    /\ UNCHANGED <<cloud_config, _external_networks, _external_network_stamp,
                   _internal_networks, _internal_network_stamp, neutron,
                   first>>

TaskAnswers == {"ok", "fail"}

CallGetContainer ==
    /\ \E name \in Containers, skip_cache \in BOOLEAN,
          answer \in TaskAnswers :
          ContainerCall([verb |-> "get_container", name |-> name,
                         skip_cache |-> skip_cache],
                        get_container(_container_cache, swift, name,
                                      skip_cache, answer))
    /\ ContainersOnly

CallCreateContainer ==
    /\ \E name \in Containers, public \in BOOLEAN,
          a \in [get : TaskAnswers, create : TaskAnswers,
                 update : TaskAnswers, again : TaskAnswers] :
          ContainerCall([verb |-> "create_container", name |-> name,
                         public |-> public],
                        create_container(_container_cache, swift, name,
                                         public, a))
    /\ ContainersOnly

CallDeleteContainer ==
    /\ \E name \in Containers, answer \in TaskAnswers :
          ContainerCall([verb |-> "delete_container", name |-> name],
                        delete_container(_container_cache, swift, name,
                                         answer))
    /\ ContainersOnly

\* another client of the cloud creates or deletes a container
SwiftChange ==
    /\ \E name \in Containers :
          swift' = IF name \in swift THEN swift \ {name}
                   ELSE swift \cup {name}
    /\ UNCHANGED <<srvVars, resVars>>
    /\ UNCHANGED <<has_network, secgroup_source, request, result, fnVars>>
    /\ UNCHANGED <<cloud_config, _external_networks, _external_network_stamp,
                   _internal_networks, _internal_network_stamp, neutron,
                   _container_cache, called, answered, first>>

\* a connection as constructed, on a cloud with its containers
ContainersInit ==
    /\ SrvIdle
    /\ ResIdle
    /\ has_network = FALSE
    /\ secgroup_source = None
    /\ request = NoRequest
    /\ result = NoResult
    /\ FnIdle
    /\ cloud_config = DefaultConfig
    /\ _external_networks = {}
    /\ _external_network_stamp = FALSE
    /\ _internal_networks = {}
    /\ _internal_network_stamp = FALSE
    /\ neutron = {}
    /\ _container_cache = [name \in Containers |-> Missing]
    /\ swift \in SUBSET Containers
    /\ called = NotCalled
    /\ answered = NoAnswer
    /\ first = [external |-> NoneYet, internal |-> NoneYet]

ContainersNext ==
    \/ CallGetContainer
    \/ CallCreateContainer
    \/ CallDeleteContainer
    \/ SwiftChange

SpecContainers == ContainersInit /\ [][ContainersNext]_vars

\* delete_container(name) was the last call, it returned, and the object
\* store does not hold the container
JustDeleted(name) ==
    /\ called = [verb |-> "delete_container", name |-> name]
    /\ answered.st = "returned"
    /\ name \notin swift

\* C36: after delete_container(name) has returned, get_container(name)
\* without skip_cache does not return the deleted container from
\* self._container_cache, and a create_container(name) that follows submits
\* ContainerCreate again
C36_DeletedContainerLeavesTheCache ==
    [][\A name \in Containers :
          (/\ JustDeleted(name)
           /\ called'.verb \in {"get_container", "create_container"}
           /\ called'.name = name
           /\ answered'.st = "returned")
          => /\ (called'.verb = "get_container" /\ ~called'.skip_cache)
                => answered'.out = None
             /\ called'.verb = "create_container"
                => Count(answered'.tasks, "ContainerCreate") = 1]_vars


\* -------------------------------------------------------------------
\* _add_auto_ip(server, reuse=False) has returned and _attach_ip_to_server
\* submitted no attach task
AttachSkipped ==
    /\ request.verb = "_add_auto_ip"
    /\ ~request.a.reuse
    /\ result.st = "returned"
    /\ ~Submitted("NeutronFloatingIPUpdate")
    /\ ~Submitted("NovaFloatingIPAttach")

\* C37: in _add_auto_ip with reuse=False, whenever the attach step is
\* skipped the floating IP that create_floating_ip returned was created
\* bound to a port of the server, also when create_floating_ip fell back to
\* nova and when the server has no port
C37_SkippedAttachHasBoundAddress ==
    AttachSkipped =>
        create_floating_ip(NoTrace,
                           [request.a EXCEPT !.server = TRUE]).out = "bound ip"


\* -------------------------------------------------------------------
\* C38: when the ServerList task of a list_servers call raises, the stored
\* snapshot and self._servers_time stay as they were until the error has
\* reached the caller that fetched, and that caller leaves with the error
\* and the refresh lock released
C38_FailedFetchLeavesSnapshot ==
    [][\A t \in Threads :
          /\ (pc[t] = "fetch" /\ pc'[t] = "unwind") =>
                /\ _servers' = _servers
                /\ _servers_time' = _servers_time
          /\ pc[t] = "unwind" =>
                /\ _servers' = _servers
                /\ _servers_time' = _servers_time
          /\ (pc[t] = "unwind" /\ pc'[t] # "unwind") =>
                /\ pc'[t] = "raised"
                /\ ret'[t] = Raised
                /\ ~_servers_lock']_vars

C38_Witness ==
    \E t \in Threads :
        /\ pc[t] = "raised"
        /\ ret[t] = Raised
        /\ ~_servers_lock
        /\ _servers.fetch > 0
        /\ fetches > _servers.fetch
        /\ _servers_time > 0

\* the callers between the acquire that succeeded and the release
Refreshing == {t \in Threads :
                 pc[t] \in {"fetch", "store", "stamp", "release", "unwind"}}

\* C39: at most one caller of list_servers is fetching at any time, it
\* holds the refresh lock, and self._servers is replaced only by a caller
\* that holds the lock
C39_OneFetchUnderTheLock ==
    [][/\ Cardinality(Refreshing) <= 1
       /\ Refreshing # {} => _servers_lock
       /\ _servers' # _servers =>
             \E t \in Refreshing : pc[t] = "store" /\ pc'[t] = "stamp"]_vars

C39_Witness ==
    /\ Cardinality(Refreshing) = 1
    /\ \E t \in Threads : pc[t] = "acquire" /\ blocking[t]
    /\ \E t \in Threads : pc[t] = "store"
    /\ fetches = 2
    /\ _servers_lock


\* ===================================================================
\* list_servers under fair scheduling
\* ===================================================================
\* a step of caller t inside list_servers other than the acquire
ls_step(t) ==
    \/ ls_check(t)
    \/ ls_arg(t)
    \/ ls_fetch(t)
    \/ ls_store(t)
    \/ ls_stamp(t)
    \/ ls_release(t)
    \/ ls_return(t)

\* a thread inside list_servers keeps running, its ServerList task answers
\* or raises, and a caller waiting for the lock gets it if the lock comes
\* free again and again
Fairness ==
    \A t \in Threads :
        /\ WF_vars(ls_step(t))
        /\ SF_vars(ls_acquire(t))

SpecServersFair == ServersInit /\ [][SrvNext]_vars /\ Fairness

\* caller t is inside list_servers
Inside(t) == pc[t] \notin {"idle", "done", "raised"}

\* C40: every list_servers call returns or raises in the end, whatever the
\* interleaving of the callers and also when fetches fail while no snapshot
\* is stored: no caller waits for the refresh lock forever
C40_EveryCallEnds ==
    \A t \in Threads : Inside(t) ~> pc[t] \in {"done", "raised"}

\* a caller got the lock it had to wait for after the holder's fetch failed
\* with no snapshot stored
C40_Witness ==
    \E t \in Threads, u \in Threads :
        /\ pc[t] = "fetch"
        /\ cold[t]
        /\ pc[u] = "raised"
        /\ _servers = NoSnapshot
        /\ fetches = 1


====
